---- MODULE Spec2Model ----
(***************************************************************************)
(* OlivIA-RAG: the agent graph (retriever, supervisor, specialists,        *)
(* evaluator, finalizer), the structured-output envelope around the LM     *)
(* and the supervisor's rule engine, as a state machine.                   *)
(*                                                                         *)
(* Python strings are TLA+ strings; an Optional[str] that is None is the   *)
(* reserved string NONE.  An LM reply is a record naming the shape of the  *)
(* reply text (what the JSON parser makes of it) and the fields the code   *)
(* reads from it.                                                          *)
(***************************************************************************)
EXTENDS Integers, Sequences, FiniteSets, TLC

VARIABLES estado, pc, path, runStatus, runResult, lmDecision, lmMode, envelope, before,
          session, knowledge, official_topics, population, best_plan, generation,
          selected, offspring, gaStatus

\* the pipeline: the conversation state of the run, the node to execute, the
\* nodes executed, what run returned, and the record of the last LM call
graphVars == <<estado, pc, path, runStatus, runResult, lmDecision, lmMode, envelope, before>>

\* the final states of the earlier runs of the session
sessionVars == <<session>>

\* the student's knowledge areas (PreUniversityMathKnowledge)
knowledgeVars == <<knowledge>>

\* the optimizer: the topics, the population, the best plan tracked, the
\* generations done, the winners of the last selection, and how it ended
gaVars == <<official_topics, population, best_plan, generation, selected, offspring, gaStatus>>

vars == <<estado, pc, path, runStatus, runResult, lmDecision, lmMode, envelope, before,
          session, knowledge, official_topics, population, best_plan, generation,
          selected, offspring, gaStatus>>

\* the parts of the state a specification does not exercise
NoSession == session = <<>>

NoKnowledge == knowledge = [areas |-> <<>>, updates |-> 0]

NoOptimizer ==
    /\ official_topics = <<>>
    /\ population = <<>>
    /\ best_plan = <<>>
    /\ offspring = <<>>
    /\ generation = 0
    /\ selected = <<>>
    /\ gaStatus = "idle"

(***************************************************************************)
(* Bounds                                                                  *)
(***************************************************************************)
\* recursion_limit of the config handed to graph.ainvoke: the number of node
\* executions LangGraph allows before it raises GraphRecursionError (the
\* library default is 25; the model is checked with a smaller limit).
RecursionLimit == 7

\* how many times a node function is applied to a state on its own (SpecNodes)
MaxApplied == 2

\* how many structured calls are made on the envelope on its own (SpecEnvelope)
MaxCalls == 2

\* how many analyses update the student's knowledge (SpecKnowledge)
MaxUpdates == 2

\* how many crossovers and mutations are applied to a plan (SpecPlans)
MaxPlanOps == 1

\* num_generations of evolve_population (SpecEvolve)
NumGenerations == 1

\* how many times run is called in a session (SpecSession)
MaxRuns == 2

(***************************************************************************)
(* Strings                                                                 *)
(***************************************************************************)
NONE == "<None>"

MISSING == "<missing>"

\* Python truthiness of an Optional[str]
Truthy(s) == s # NONE /\ s # ""

LowerChar(c) ==
    CASE c = "A" -> "a" [] c = "C" -> "c" [] c = "E" -> "e" [] c = "G" -> "g"
      [] c = "H" -> "h" [] c = "Q" -> "q" [] c = "T" -> "t" [] c = "U" -> "u"
      [] OTHER -> c

RECURSIVE Lower(_)
\* str.lower()
Lower(s) == IF Len(s) = 0 THEN "" ELSE LowerChar(SubSeq(s, 1, 1)) \o Lower(SubSeq(s, 2, Len(s)))

\* Python's `kw in text` on strings: substring containment
Contains(text, kw) == \E i \in 1..(Len(text) + 1 - Len(kw)) : SubSeq(text, i, i + Len(kw) - 1) = kw

\* str.startswith
StartsWith(s, prefix) == Len(s) >= Len(prefix) /\ SubSeq(s, 1, Len(prefix)) = prefix

\* The queries run(consulta) is called with
Queries == {"Explica el teorema", "Crea un quiz", "hola", "Un caso general", "Explica el Test"}

(***************************************************************************)
(* The conversation state (EstadoConversacion)                             *)
(***************************************************************************)
Niveles == {"principiante", "intermedio", "avanzado"}

\* EstadoConversacion(consulta_inicial=consulta, estado_actual="inicio")
EstadoInicial(consulta) ==
    [consulta_inicial      |-> consulta,
     chat_history          |-> <<>>,
     contexto_recuperado   |-> <<>>,
     nivel_comprension     |-> "principiante",
     bdi_last_decision     |-> NONE,
     bdi_current_action    |-> NONE,
     respuesta_math_expert |-> NONE,
     respuesta_exam_creator|-> NONE,
     respuesta_planning    |-> NONE,
     tipo_ayuda_necesaria  |-> NONE,
     estado_actual         |-> "inicio",
     respuesta_final       |-> NONE,
     necesita_crawler      |-> FALSE]

\* one chat_history entry; the metadata blob is not modelled
Mensaje(role, content) == [role |-> role, content |-> content]

(***************************************************************************)
(* Supervisor: the rule engine (_crear_decision_fallback)                  *)
(***************************************************************************)
palabras_examen == {"examen", "quiz", "test", "evaluación", "preguntas", "práctica",
                    "ejercicios", "crea", "genera", "haz un", "prueba", "assessment"}

palabras_matematicas == {"explica", "qué es", "cómo", "teorema", "fórmula",
                         "concepto", "definición", "resolver", "demuestra", "solucion", "solución"}

\* any(palabra in consulta_lower for palabra in palabras)
AnyIn(palabras, consulta_lower) == \E palabra \in palabras : Contains(consulta_lower, palabra)

\* the two keyword tests of every query, computed once
KeywordHits ==
    [consulta \in Queries |->
        [examen      |-> AnyIn(palabras_examen, Lower(consulta)),
         matematicas |-> AnyIn(palabras_matematicas, Lower(consulta))]]

\* a rule engine whose general-case rule looks at the student's level
CrearDecisionFallback_ReadsLevel(e) ==
    LET hits == KeywordHits[e.consulta_inicial]
        exam == Truthy(e.respuesta_exam_creator)
        math == Truthy(e.respuesta_math_expert)
        tag  == e.estado_actual
    IN  IF hits.examen /\ ~exam THEN "exam_creator"
        ELSE IF hits.matematicas /\ ~math /\ ~exam THEN "math_expert"
        ELSE IF exam /\ tag \notin {"evaluator_completado", "exam_creator_evaluado"} THEN "evaluator"
        ELSE IF math /\ tag \notin {"evaluator_completado", "math_expert_evaluado"}
             THEN IF e.nivel_comprension = "avanzado" THEN "FINISH" ELSE "evaluator"
        ELSE IF tag \in {"evaluator_completado", "math_expert_evaluado", "exam_creator_evaluado"} THEN "FINISH"
        ELSE IF math \/ exam
             THEN IF Len(e.chat_history) > 0
                     /\ e.consulta_inicial # e.chat_history[Len(e.chat_history)].content
                  THEN IF hits.examen THEN "exam_creator" ELSE "math_expert"
                  ELSE "FINISH"
        ELSE "math_expert"

\* a rule engine that tests the mathematics keywords before the exam keywords
CrearDecisionFallback_MathFirst(e) ==
    LET hits == KeywordHits[e.consulta_inicial]
        exam == Truthy(e.respuesta_exam_creator)
        math == Truthy(e.respuesta_math_expert)
        tag  == e.estado_actual
    IN  IF hits.matematicas /\ ~math /\ ~exam THEN "math_expert"
        ELSE IF hits.examen /\ ~exam THEN "exam_creator"
        ELSE IF exam /\ tag \notin {"evaluator_completado", "exam_creator_evaluado"} THEN "evaluator"
        ELSE IF math /\ tag \notin {"evaluator_completado", "math_expert_evaluado"} THEN "evaluator"
        ELSE IF tag \in {"evaluator_completado", "math_expert_evaluado", "exam_creator_evaluado"} THEN "FINISH"
        ELSE IF math \/ exam
             THEN IF Len(e.chat_history) > 0
                     /\ e.consulta_inicial # e.chat_history[Len(e.chat_history)].content
                  THEN IF hits.examen THEN "exam_creator" ELSE "math_expert"
                  ELSE "FINISH"
        ELSE "math_expert"

\* a rule engine that tests the evaluated tags before asking for an evaluation
CrearDecisionFallback_FinishFirst(e) ==
    LET hits == KeywordHits[e.consulta_inicial]
        exam == Truthy(e.respuesta_exam_creator)
        math == Truthy(e.respuesta_math_expert)
        tag  == e.estado_actual
    IN  IF hits.examen /\ ~exam THEN "exam_creator"
        ELSE IF hits.matematicas /\ ~math /\ ~exam THEN "math_expert"
        ELSE IF tag \in {"evaluator_completado", "math_expert_evaluado", "exam_creator_evaluado"} THEN "FINISH"
        ELSE IF exam /\ tag \notin {"evaluator_completado", "exam_creator_evaluado"} THEN "evaluator"
        ELSE IF math /\ tag \notin {"evaluator_completado", "math_expert_evaluado"} THEN "evaluator"
        ELSE IF math \/ exam
             THEN IF Len(e.chat_history) > 0
                     /\ e.consulta_inicial # e.chat_history[Len(e.chat_history)].content
                  THEN IF hits.examen THEN "exam_creator" ELSE "math_expert"
                  ELSE "FINISH"
        ELSE "math_expert"

CrearDecisionFallback(e) ==
    LET hits == KeywordHits[e.consulta_inicial]
        exam == Truthy(e.respuesta_exam_creator)
        math == Truthy(e.respuesta_math_expert)
        tag  == e.estado_actual
    IN  IF hits.examen /\ ~exam THEN "exam_creator"
        ELSE IF hits.matematicas /\ ~math /\ ~exam THEN "math_expert"
        ELSE IF exam /\ tag \notin {"evaluator_completado", "exam_creator_evaluado"} THEN "evaluator"
        ELSE IF math /\ tag \notin {"evaluator_completado", "math_expert_evaluado"} THEN "evaluator"
        ELSE IF tag \in {"evaluator_completado", "math_expert_evaluado", "exam_creator_evaluado"} THEN "FINISH"
        ELSE IF math \/ exam
             THEN IF Len(e.chat_history) > 0
                     /\ e.consulta_inicial # e.chat_history[Len(e.chat_history)].content
                  THEN IF hits.examen THEN "exam_creator" ELSE "math_expert"
                  ELSE "FINISH"
        ELSE "math_expert"

(***************************************************************************)
(* The LM envelope (MistralLLMProvider.ainvoke with a schema)              *)
(***************************************************************************)
\* What the reply text is: chat_completion failed and returned "", free text
\* without JSON, a JSON value that is not an object (a list, a number), a
\* JSON object, or free text around one flat JSON object.
ReplyKinds == {"transport_error", "text", "json_value", "json_object", "embedded_object"}

DegradedKinds == {"transport_error", "text", "json_value"}

HasObject(reply) == reply.kind \in {"json_object", "embedded_object"}

\* the string chat_completion returns
ResponseText(reply) ==
    CASE reply.kind = "transport_error" -> ""
      [] reply.kind = "text"            -> "texto libre"
      [] reply.kind = "json_value"      -> "[]"
      [] reply.kind = "json_object"     -> "{...}"
      [] reply.kind = "embedded_object" -> "texto {...}"

Schemas == {"SupervisorDecision", "MathExpertResponse", "ExamCreatorResponse",
            "ResponseEvaluation", "KnowledgeAnalysisResponse", "PlanningResponse"}

\* the fields of each pydantic model that have no default
RequiredFields(schema) ==
    CASE schema = "SupervisorDecision"        -> {"next_agent", "reasoning", "confidence"}
      [] schema = "MathExpertResponse"        -> {"explanation", "difficulty_level"}
      [] schema = "ExamCreatorResponse"       -> {"exam_title", "questions", "difficulty_level", "estimated_time"}
      [] schema = "ResponseEvaluation"        -> {"is_sufficient", "correctness_score", "clarity_score",
                                                  "completeness_score", "relevance_score",
                                                  "needs_more_context", "overall_quality"}
      [] schema = "KnowledgeAnalysisResponse" -> {"areas_analyzed", "knowledge_updates",
                                                  "overall_assessment", "recommendations"}
      [] schema = "PlanningResponse"          -> {"plan", "score"}

\* SupervisorDecision.next_agent: Literal[...]
SupervisorLiteral == {"math_expert", "exam_creator", "student_simulator", "evaluator", "FINISH"}

\* schema(**obj) succeeds: every required field is there and passes validation.
\* rest is "ok" when the fields the model does not name are present and valid,
\* "missing" when one is absent, "invalid" when one fails its validator.
Validates(schema, reply) ==
    /\ reply.rest = "ok"
    /\ CASE schema = "SupervisorDecision"  -> reply.next_agent \in SupervisorLiteral
         [] schema = "MathExpertResponse"  -> reply.explanation # MISSING
         [] schema = "ExamCreatorResponse" -> reply.has_title
         [] OTHER                          -> TRUE

\* JsonOutputParser.parse(response)
Parse(reply) ==
    CASE reply.kind = "json_object" -> "dict"
      [] reply.kind = "json_value"  -> "value"
      [] OTHER                      -> "raise"

\* self._structured_output_schema(): the model built with no arguments
SchemaDefault(schema) == IF RequiredFields(schema) = {} THEN "default" ELSE "raise"

\* _extract_json_fallback: the first regex match that loads and validates,
\* else the schema built with no arguments (which may raise, also in the handler)
ExtractJsonFallback(schema, reply) ==
    IF HasObject(reply) /\ Validates(schema, reply) THEN "typed" ELSE SchemaDefault(schema)

\* ainvoke with a schema: "typed" (an instance of the schema), "value" (the
\* parsed non-dict value, returned as is), "default", or "raise" (the
\* exception leaves ainvoke)
Ainvoke(schema, reply) ==
    LET parsed == Parse(reply)
        inner  == CASE parsed = "dict"  -> IF Validates(schema, reply) THEN "typed"
                                           ELSE ExtractJsonFallback(schema, reply)
                    [] parsed = "value" -> "value"
                    [] parsed = "raise" -> ExtractJsonFallback(schema, reply)
    IN  IF inner = "raise" THEN SchemaDefault(schema) ELSE inner

\* the record kept of a structured call: the schema, the reply and the outcome
Envelope(schema, reply) == [schema |-> schema, reply |-> reply, outcome |-> Ainvoke(schema, reply)]

NoEnvelope == [schema |-> NONE, reply |-> NONE, outcome |-> "none"]

(***************************************************************************)
(* Supervisor node (supervisor_chain) and router (supervisor_router)       *)
(***************************************************************************)
LMAgents == SupervisorLiteral \cup {"planning"}

SupervisorReplies ==
    [kind : DegradedKinds, next_agent : {MISSING}, rest : {"ok"}]
    \cup [kind : {"json_object"}, next_agent : LMAgents \cup {MISSING}, rest : {"ok"}]
    \cup {[kind |-> "json_object", next_agent |-> "FINISH", rest |-> "invalid"],
          [kind |-> "json_object", next_agent |-> "evaluator", rest |-> "missing"],
          [kind |-> "embedded_object", next_agent |-> "evaluator", rest |-> "ok"]}

opciones_validas == {"math_expert", "exam_creator", "evaluator", "FINISH"}

\* lines 120-151: the decision the LM stage leaves in `respuesta`: an agent
\* name, "<rule>" when the parse error handler calls the rule engine, or
\* "<no_attr>" when respuesta is a parsed value without next_agent
SupervisorLLMStage(r1, r2) ==
    LET o1 == Ainvoke("SupervisorDecision", r1)
    IN  CASE o1 = "typed" -> r1.next_agent
          [] o1 = "value" -> "<no_attr>"
          [] OTHER ->
               CASE Parse(r2) = "raise" -> "<rule>"
                 [] Parse(r2) = "value" -> "<no_attr>"
                 [] Parse(r2) = "dict"  ->
                      LET na == IF r2.next_agent = MISSING THEN "math_expert" ELSE r2.next_agent
                      IN  IF na \in SupervisorLiteral /\ r2.rest # "invalid" THEN na ELSE "<rule>"

\* a supervisor that stores whatever agent the LM stage left, unchecked
SupervisorChain_Unchecked(e, r1, r2) ==
    LET d == SupervisorLLMStage(r1, r2)
    IN  IF d = "<no_attr>"
        THEN LET agent == CrearDecisionFallback(e)
             IN  [e EXCEPT !.tipo_ayuda_necesaria = agent,
                           !.estado_actual = "supervisor_fallback_" \o agent]
        ELSE LET agent == IF d = "<rule>" THEN CrearDecisionFallback(e) ELSE d
             IN  [e EXCEPT !.tipo_ayuda_necesaria = agent,
                           !.estado_actual = "supervisor_decidio_" \o agent,
                           !.bdi_last_decision = agent,
                           !.bdi_current_action = agent]

SupervisorChain(e, r1, r2) ==
    LET d == SupervisorLLMStage(r1, r2)
    IN  IF d = "<no_attr>"
        THEN \* line 154 raises AttributeError: the emergency handler (167-173)
             LET agent == CrearDecisionFallback(e)
             IN  [e EXCEPT !.tipo_ayuda_necesaria = agent,
                           !.estado_actual = "supervisor_fallback_" \o agent]
        ELSE LET agent == IF d = "<rule>" \/ d \notin opciones_validas
                          THEN CrearDecisionFallback(e) ELSE d
             IN  [e EXCEPT !.tipo_ayuda_necesaria = agent,
                           !.estado_actual = "supervisor_decidio_" \o agent,
                           !.bdi_last_decision = agent,
                           !.bdi_current_action = agent]

\* the agent named by the reply the supervisor read, when that reply is a
\* well-formed decision apart from the name (NONE: no such reply, or no name)
LMNamedAgent(r1, r2) ==
    LET o1 == Ainvoke("SupervisorDecision", r1)
    IN  IF o1 = "typed" THEN r1.next_agent
        ELSE IF o1 = "raise" /\ Parse(r2) = "dict" /\ r2.rest # "invalid" /\ r2.next_agent # MISSING
        THEN r2.next_agent
        ELSE NONE

SupervisorRouter(e) ==
    LET decision == IF Truthy(e.tipo_ayuda_necesaria) THEN e.tipo_ayuda_necesaria ELSE "math_expert"
    IN  IF decision \notin opciones_validas THEN "math_expert" ELSE decision

\* add_conditional_edges("supervisor", supervisor_router, {...})
ConditionalEdges ==
    [k \in {"math_expert", "exam_creator", "evaluator", "planning", "FINISH"} |->
        IF k = "FINISH" THEN "finalizer" ELSE k]

\* a wiring in which the evaluator's edge goes to the finalizer
StaticEdges_EvaluatorToFinalizer ==
    [n \in {"retriever", "math_expert", "exam_creator", "planning", "evaluator", "finalizer"} |->
        CASE n = "retriever" -> "supervisor"
          [] n = "finalizer" -> "END"
          [] n = "evaluator" -> "finalizer"
          [] OTHER           -> "supervisor"]

\* add_edge(node, successor)
StaticEdges ==
    [n \in {"retriever", "math_expert", "exam_creator", "planning", "evaluator", "finalizer"} |->
        CASE n = "retriever" -> "supervisor"
          [] n = "finalizer" -> "END"
          [] OTHER           -> "supervisor"]

(***************************************************************************)
(* Retriever node (_retriever_node, DenseRetriever.retrieve)               *)
(***************************************************************************)
\* what the vector store returns for the query (content, distance in 1/100)
SearchOutcomes ==
    {<<[content |-> "doc A", score |-> 30], [content |-> "doc B", score |-> 10]>>}

RECURSIVE InsertAsc(_, _)
\* x goes before the first element whose score is greater (a stable sort)
InsertAsc(sorted, x) ==
    IF sorted = <<>> THEN <<x>>
    ELSE IF sorted[1].score > x.score THEN <<x>> \o sorted
    ELSE <<sorted[1]>> \o InsertAsc(Tail(sorted), x)

RECURSIVE SortAsc(_)
\* result.sort(key=lambda x: x[1], reverse=False)
SortAsc(s) == IF s = <<>> THEN <<>> ELSE InsertAsc(SortAsc(SubSeq(s, 1, Len(s) - 1)), s[Len(s)])

\* DenseRetriever.retrieve(query_embedding, top_k)
Retrieve(found, top_k) ==
    LET sorted == SortAsc(found) IN SubSeq(sorted, 1, IF Len(sorted) < top_k THEN Len(sorted) ELSE top_k)

FallbackContext ==
    <<[content |-> "Documento matemático de fallback 1", score |-> 50],
      [content |-> "Documento matemático de fallback 2", score |-> 40]>>

HasUserMessage(e) ==
    \E i \in 1..Len(e.chat_history) :
        e.chat_history[i].role = "user" /\ e.chat_history[i].content = e.consulta_inicial

\* a retriever that normalises the query it was given
RetrieverChain_Normalising(e, ok, found) ==
    LET hist == IF HasUserMessage(e) THEN e.chat_history
                ELSE Append(e.chat_history, Mensaje("user", e.consulta_inicial))
    IN  [e EXCEPT !.chat_history = hist,
                  !.consulta_inicial = Lower(@),
                  !.contexto_recuperado = IF ok THEN Retrieve(found, 3) ELSE FallbackContext,
                  !.estado_actual = "retriever_completado"]

\* ok is FALSE when the embedding or the search raises
RetrieverChain(e, ok, found) ==
    LET hist == IF HasUserMessage(e) THEN e.chat_history
                ELSE Append(e.chat_history, Mensaje("user", e.consulta_inicial))
    IN  [e EXCEPT !.chat_history = hist,
                  !.contexto_recuperado = IF ok THEN Retrieve(found, 3) ELSE FallbackContext,
                  !.estado_actual = "retriever_completado"]

(***************************************************************************)
(* Math expert node (math_expert_chain)                                    *)
(***************************************************************************)
MathReplies ==
    [kind : DegradedKinds, explanation : {MISSING}, rest : {"ok"}]
    \cup [kind : {"json_object"}, explanation : {MISSING, "", "La explicación del modelo"}, rest : {"ok"}]
    \cup {[kind |-> "json_object", explanation |-> "La explicación del modelo", rest |-> "invalid"],
          [kind |-> "embedded_object", explanation |-> "La explicación del modelo", rest |-> "ok"]}

\* the replies of the raw call (self.llm.ainvoke) the model is checked with
MathRawReplies ==
    {r \in MathReplies : r.kind \in {"transport_error", "json_value"}
                         \/ (r.kind = "json_object" /\ r.explanation # "")}

\* the levels sync_legacy_fields is taken to compute after a knowledge update
KnowledgeLevels == {"principiante", "avanzado"}

\* ensure_math_expert_response on what the raw call returned (lines 133-148):
\* the explanation of the MathExpertResponse it builds
EnsureMathExplanation(r2, consulta) ==
    IF r2.kind = "json_object"
    THEN \* json.loads gave a dict
         IF r2.rest = "invalid" THEN "Error procesando consulta sobre: " \o consulta
         ELSE IF r2.explanation = MISSING THEN "Explicación sobre: " \o consulta
         ELSE r2.explanation
    ELSE \* a list, or a string json.loads rejects: str(respuesta)[:200]
         "Respuesta sobre: " \o consulta \o ". " \o ResponseText(r2)

MathExplanation(e, r1, r2) ==
    IF Ainvoke("MathExpertResponse", r1) = "typed" THEN r1.explanation
    ELSE EnsureMathExplanation(r2, e.consulta_inicial)

\* _analyze_and_update_knowledge ends in sync_legacy_fields, which recomputes
\* nivel_comprension from the mean area score; nivel is the level it computes
MathExpertChain(e, r1, r2, nivel) ==
    LET explanation == MathExplanation(e, r1, r2)
    IN  [e EXCEPT !.respuesta_math_expert = explanation,
                  !.estado_actual = "math_expert_completado",
                  !.chat_history = Append(@, Mensaje("math_expert", explanation)),
                  !.nivel_comprension = nivel]

(***************************************************************************)
(* Exam creator node (exam_creator_chain)                                  *)
(***************************************************************************)
ExamReplies ==
    [kind : DegradedKinds, has_title : {FALSE}, rest : {"ok"}]
    \cup [kind : {"json_object"}, has_title : BOOLEAN, rest : {"ok", "invalid"}]
    \cup {[kind |-> "embedded_object", has_title |-> TRUE, rest |-> "ok"]}

preguntas_basicas(consulta) ==
    <<"Define los conceptos fundamentales relacionados con: " \o consulta,
      "Explica paso a paso un procedimiento básico sobre: " \o consulta,
      "Resuelve un problema simple aplicando los conceptos de: " \o consulta>>

preguntas_intermedias(consulta) ==
    <<"Analiza y compara diferentes enfoques para resolver problemas de: " \o consulta,
      "Demuestra la validez de las fórmulas principales en: " \o consulta,
      "Aplica los conceptos de " \o consulta \o " a un problema del mundo real">>

preguntas_avanzadas(consulta) ==
    <<"Desarrolla una demostración formal relacionada con: " \o consulta,
      "Analiza críticamente las limitaciones y extensiones de: " \o consulta,
      "Propone una generalización o variación de los conceptos de: " \o consulta>>

CreateFallbackExam(consulta, nivel) ==
    [exam_title       |-> "Examen sobre " \o consulta,
     questions        |-> CASE nivel = "principiante" -> preguntas_basicas(consulta)
                            [] nivel = "intermedio"   -> SubSeq(preguntas_basicas(consulta), 1, 2)
                                                         \o SubSeq(preguntas_intermedias(consulta), 1, 2)
                            [] OTHER                  -> preguntas_intermedias(consulta)
                                                         \o SubSeq(preguntas_avanzadas(consulta), 1, 2),
     difficulty_level |-> CASE nivel = "principiante" -> "básico"
                            [] nivel = "intermedio"   -> "intermedio"
                            [] OTHER                  -> "avanzado",
     estimated_time   |-> CASE nivel = "principiante" -> 45
                            [] nivel = "intermedio"   -> 75
                            [] OTHER                  -> 90,
     topic_coverage   |-> consulta \o ", Conceptos fundamentales"]

\* the exam an LM reply that validates carries
ModelExam ==
    [exam_title       |-> "Examen del modelo",
     questions        |-> <<"Pregunta del modelo">>,
     difficulty_level |-> "intermedio",
     estimated_time   |-> 60,
     topic_coverage   |-> "tema1, tema2"]

\* str.title() of a difficulty level
Title(level) ==
    CASE level = "básico"     -> "Básico"
      [] level = "intermedio" -> "Intermedio"
      [] level = "avanzado"   -> "Avanzado"

RECURSIVE FormatQuestions(_, _)
FormatQuestions(questions, i) ==
    IF i > Len(questions) THEN ""
    ELSE "**" \o ToString(i) \o ".** " \o questions[i] \o "\n\n" \o FormatQuestions(questions, i + 1)

FormatExamOutput(examen) ==
    "# " \o examen.exam_title \o "\n\n"
    \o "**Nivel de dificultad:** " \o Title(examen.difficulty_level) \o "\n"
    \o "**Tiempo estimado:** " \o ToString(examen.estimated_time) \o " minutos\n"
    \o "**Temas cubiertos:** " \o examen.topic_coverage \o "\n\n"
    \o "## Preguntas:\n\n"
    \o FormatQuestions(examen.questions, 1)
    \o "---\n\n*Examen generado automáticamente por OlivIA*"

\* ensure_exam_creator_response on the structured result, or on the raw text
EnsureExam(e, r1, r2) ==
    LET o1 == Ainvoke("ExamCreatorResponse", r1)
    IN  IF o1 = "typed" THEN ModelExam
        ELSE IF o1 = "raise" /\ HasObject(r2) /\ r2.has_title /\ r2.rest = "ok" THEN ModelExam
        ELSE CreateFallbackExam(e.consulta_inicial, e.nivel_comprension)

ExamCreatorChain(e, r1, r2) ==
    LET salida == FormatExamOutput(EnsureExam(e, r1, r2))
    IN  [e EXCEPT !.respuesta_exam_creator = salida,
                  !.estado_actual = "exam_creator_completado",
                  !.chat_history = Append(@, Mensaje("exam_creator", salida))]

(***************************************************************************)
(* Evaluator node (evaluator_chain)                                        *)
(***************************************************************************)
EvaluatorReplies ==
    [kind : DegradedKinds, needs_more_context : {FALSE}, overall_quality : {"good"}, rest : {"ok"}]
    \cup [kind : {"json_object"}, needs_more_context : BOOLEAN, overall_quality : {"good"},
          rest : {"ok", "invalid"}]
    \cup {[kind |-> "embedded_object", needs_more_context |-> FALSE, overall_quality |-> "good",
           rest |-> "ok"]}

\* a selection that looks at the planning response before the exam tag
ObtenerRespuestaParaEvaluar_PlanningFirst(e) ==
    IF Truthy(e.respuesta_planning)
    THEN <<e.respuesta_planning, "planning">>
    ELSE IF Truthy(e.respuesta_exam_creator) /\ StartsWith(e.estado_actual, "exam_creator")
    THEN <<e.respuesta_exam_creator, "exam_creator">>
    ELSE IF Truthy(e.respuesta_math_expert) /\ StartsWith(e.estado_actual, "math_expert")
    THEN <<e.respuesta_math_expert, "math_expert">>
    ELSE IF Truthy(e.respuesta_math_expert)
            /\ e.estado_actual \notin {"math_expert_evaluado", "evaluator_completado"}
    THEN <<e.respuesta_math_expert, "math_expert">>
    ELSE IF Truthy(e.respuesta_exam_creator)
            /\ e.estado_actual \notin {"exam_creator_evaluado", "evaluator_completado"}
    THEN <<e.respuesta_exam_creator, "exam_creator">>
    ELSE <<NONE, "">>

\* a selection whose fallback looks at the exam before the explanation
ObtenerRespuestaParaEvaluar_ExamFallbackFirst(e) ==
    IF Truthy(e.respuesta_exam_creator) /\ StartsWith(e.estado_actual, "exam_creator")
    THEN <<e.respuesta_exam_creator, "exam_creator">>
    ELSE IF Truthy(e.respuesta_planning)
    THEN <<e.respuesta_planning, "planning">>
    ELSE IF Truthy(e.respuesta_math_expert) /\ StartsWith(e.estado_actual, "math_expert")
    THEN <<e.respuesta_math_expert, "math_expert">>
    ELSE IF Truthy(e.respuesta_exam_creator)
            /\ e.estado_actual \notin {"exam_creator_evaluado", "evaluator_completado"}
    THEN <<e.respuesta_exam_creator, "exam_creator">>
    ELSE IF Truthy(e.respuesta_math_expert)
            /\ e.estado_actual \notin {"math_expert_evaluado", "evaluator_completado"}
    THEN <<e.respuesta_math_expert, "math_expert">>
    ELSE <<NONE, "">>

\* _obtener_respuesta_para_evaluar: <<respuesta_a_evaluar, tipo_respuesta>>
ObtenerRespuestaParaEvaluar(e) ==
    IF Truthy(e.respuesta_exam_creator) /\ StartsWith(e.estado_actual, "exam_creator")
    THEN <<e.respuesta_exam_creator, "exam_creator">>
    ELSE IF Truthy(e.respuesta_planning)
    THEN <<e.respuesta_planning, "planning">>
    ELSE IF Truthy(e.respuesta_math_expert) /\ StartsWith(e.estado_actual, "math_expert")
    THEN <<e.respuesta_math_expert, "math_expert">>
    ELSE IF Truthy(e.respuesta_math_expert)
            /\ e.estado_actual \notin {"math_expert_evaluado", "evaluator_completado"}
    THEN <<e.respuesta_math_expert, "math_expert">>
    ELSE IF Truthy(e.respuesta_exam_creator)
            /\ e.estado_actual \notin {"exam_creator_evaluado", "evaluator_completado"}
    THEN <<e.respuesta_exam_creator, "exam_creator">>
    ELSE <<NONE, "">>

\* the fallback evaluation of lines 109-118
DefaultEvaluation == [needs_more_context |-> FALSE, overall_quality |-> "acceptable"]

\* lines 78-118: the evaluation the LM stage leaves; is_evaluation is FALSE
\* when it is a parsed value that is not a ResponseEvaluation
EvaluatorLLMStage(r1, r2) ==
    LET o1 == Ainvoke("ResponseEvaluation", r1)
        NotAnEvaluation == [is_evaluation |-> FALSE, needs_more_context |-> FALSE,
                            overall_quality |-> NONE]
        From(r) == [is_evaluation |-> TRUE, needs_more_context |-> r.needs_more_context,
                    overall_quality |-> r.overall_quality]
    IN  CASE o1 = "typed" -> From(r1)
          [] o1 = "value" -> NotAnEvaluation
          [] OTHER ->
               CASE Parse(r2) = "value" -> NotAnEvaluation
                 [] Parse(r2) = "dict" /\ r2.rest = "ok" -> From(r2)
                 [] OTHER -> From(DefaultEvaluation)

EvaluatorChain(e, r1, r2) ==
    LET sel == ObtenerRespuestaParaEvaluar(e)
        ev  == EvaluatorLLMStage(r1, r2)
    IN  IF ~Truthy(sel[1]) THEN [e EXCEPT !.estado_actual = "evaluator_sin_contenido"]
        ELSE IF ~ev.is_evaluation
        THEN \* _actualizar_estado_con_evaluacion raises on its first line
             [e EXCEPT !.estado_actual = "evaluator_error"]
        ELSE [e EXCEPT !.necesita_crawler = ev.needs_more_context,
                       !.chat_history = Append(@, Mensaje("evaluator",
                                           "Evaluación completada: " \o ev.overall_quality)),
                       !.estado_actual = CASE sel[2] = "exam_creator" -> "exam_creator_evaluado"
                                           [] sel[2] = "math_expert"  -> "math_expert_evaluado"
                                           [] OTHER                   -> "evaluator_completado"]

(***************************************************************************)
(* Finalizer node (_finalizer_node)                                        *)
(***************************************************************************)
NoAdequateResponse == "No se pudo generar una respuesta adecuada."

\* a finalizer that prefers the exam over the explanation
FinalizerChain_ExamFirst(e) ==
    [e EXCEPT !.respuesta_final =
                  IF Truthy(e.respuesta_exam_creator) THEN e.respuesta_exam_creator
                  ELSE IF Truthy(e.respuesta_math_expert) THEN e.respuesta_math_expert
                  ELSE IF Truthy(e.respuesta_planning) THEN e.respuesta_planning
                  ELSE NoAdequateResponse,
              !.estado_actual = "FINISH",
              !.necesita_crawler = FALSE]

\* a finalizer that consumes the response it returns
FinalizerChain_Consuming(e) ==
    IF Truthy(e.respuesta_math_expert)
    THEN [e EXCEPT !.respuesta_final = e.respuesta_math_expert,
                   !.respuesta_math_expert = NONE,
                   !.estado_actual = "FINISH",
                   !.necesita_crawler = FALSE]
    ELSE [e EXCEPT !.respuesta_final =
                       IF Truthy(e.respuesta_exam_creator) THEN e.respuesta_exam_creator
                       ELSE IF Truthy(e.respuesta_planning) THEN e.respuesta_planning
                       ELSE NoAdequateResponse,
                   !.estado_actual = "FINISH",
                   !.necesita_crawler = FALSE]

FinalizerChain(e) ==
    [e EXCEPT !.respuesta_final =
                  IF Truthy(e.respuesta_math_expert) THEN e.respuesta_math_expert
                  ELSE IF Truthy(e.respuesta_exam_creator) THEN e.respuesta_exam_creator
                  ELSE IF Truthy(e.respuesta_planning) THEN e.respuesta_planning
                  ELSE NoAdequateResponse,
              !.estado_actual = "FINISH",
              !.necesita_crawler = FALSE]

(***************************************************************************)
(* The driver: run(consulta) and the compiled graph                        *)
(***************************************************************************)
\* how the LM behaves during a degraded run: every call fails in transport,
\* or every call returns JSON that is not an object
DegradedModes == {"transport_error", "json_value"}

\* the replies the LM gives: any of them, or, in a degraded run, the ones of
\* the run's mode
Replies(all) == IF lmMode = "any" THEN all ELSE {r \in all : r.kind = lmMode}

\* the replies of the raw call, which is made only when the structured call
\* did not return (or, with returns_value FALSE, returned a parsed value the
\* node cannot use)
RawReplies(all, schema, r1, returns_value) ==
    IF Ainvoke(schema, r1) = "typed" \/ (returns_value /\ Ainvoke(schema, r1) = "value")
    THEN {r1} ELSE Replies(all)

Running(node) == runStatus = "running" /\ pc = node /\ Len(path) < RecursionLimit

\* one node execution: the node's function, then the edge out of it
Advance(node, e2, next) ==
    /\ estado' = e2
    /\ before' = estado
    /\ path' = Append(path, node)
    /\ pc' = next
    /\ UNCHANGED <<runStatus, runResult, lmMode, envelope>>
    /\ UNCHANGED <<sessionVars, knowledgeVars, gaVars>>

InitRun(modes) ==
    /\ \E consulta \in Queries : estado = EstadoInicial(consulta)
    /\ before = estado
    /\ pc = "retriever"
    /\ path = <<>>
    /\ runStatus = "running"
    /\ runResult = NONE
    /\ lmDecision = NONE
    /\ lmMode \in modes
    /\ envelope = NoEnvelope
    /\ NoSession /\ NoKnowledge /\ NoOptimizer

Init == InitRun({"any"})

RetrieverNode ==
    /\ Running("retriever")
    /\ \E ok \in BOOLEAN, found \in SearchOutcomes :
          Advance("retriever", RetrieverChain(estado, ok, found), StaticEdges["retriever"])
    /\ lmDecision' = NONE

SupervisorNode ==
    /\ Running("supervisor")
    /\ \E r1 \in Replies(SupervisorReplies) :
       \E r2 \in RawReplies(SupervisorReplies, "SupervisorDecision", r1, TRUE) :
          LET e2 == SupervisorChain(estado, r1, r2)
          IN  /\ Advance("supervisor", e2, ConditionalEdges[SupervisorRouter(e2)])
              /\ lmDecision' = LMNamedAgent(r1, r2)

MathExpertNode ==
    /\ Running("math_expert")
    /\ \E r1 \in Replies(MathReplies), nivel \in KnowledgeLevels :
       \E r2 \in RawReplies(MathRawReplies, "MathExpertResponse", r1, FALSE) :
          Advance("math_expert", MathExpertChain(estado, r1, r2, nivel), StaticEdges["math_expert"])
    /\ lmDecision' = NONE

ExamCreatorNode ==
    /\ Running("exam_creator")
    /\ \E r1 \in Replies(ExamReplies) :
       \E r2 \in RawReplies(ExamReplies, "ExamCreatorResponse", r1, TRUE) :
          Advance("exam_creator", ExamCreatorChain(estado, r1, r2), StaticEdges["exam_creator"])
    /\ lmDecision' = NONE

EvaluatorNode ==
    /\ Running("evaluator")
    /\ \E r1 \in Replies(EvaluatorReplies) :
       \E r2 \in RawReplies(EvaluatorReplies, "ResponseEvaluation", r1, TRUE) :
          Advance("evaluator", EvaluatorChain(estado, r1, r2), StaticEdges["evaluator"])
    /\ lmDecision' = NONE

FinalizerNode ==
    /\ Running("finalizer")
    /\ Advance("finalizer", FinalizerChain(estado), StaticEdges["finalizer"])
    /\ lmDecision' = NONE

\* graph.ainvoke raises GraphRecursionError; run catches it (lines 241-245)
GraphRecursionError ==
    /\ runStatus = "running"
    /\ pc # "END"
    /\ Len(path) = RecursionLimit
    /\ runStatus' = "returned"
    /\ runResult' = "Error: Recursion limit reached"
    /\ pc' = "raised"
    /\ UNCHANGED <<estado, before, path, lmDecision, lmMode, envelope>>
    /\ UNCHANGED <<sessionVars, knowledgeVars, gaVars>>

\* return resultado['respuesta_final'] (line 239)
RunReturns ==
    /\ runStatus = "running"
    /\ pc = "END"
    /\ runStatus' = "returned"
    /\ runResult' = estado.respuesta_final
    /\ UNCHANGED <<estado, before, path, pc, lmDecision, lmMode, envelope>>
    /\ UNCHANGED <<sessionVars, knowledgeVars, gaVars>>

Next ==
    \/ RetrieverNode
    \/ SupervisorNode
    \/ MathExpertNode
    \/ ExamCreatorNode
    \/ EvaluatorNode
    \/ FinalizerNode
    \/ GraphRecursionError
    \/ RunReturns

Spec == Init /\ [][Next]_vars

\* the same graph when every LM call fails or returns malformed output
InitDegraded == InitRun(DegradedModes)

SpecDegraded == InitDegraded /\ [][Next]_vars

RECURSIVE CountOf(_, _)
CountOf(node, p) == IF p = <<>> THEN 0 ELSE (IF p[1] = node THEN 1 ELSE 0) + CountOf(node, Tail(p))

\* supervisor executions so far
hops == CountOf("supervisor", path)

Last(p) == IF p = <<>> THEN NONE ELSE p[Len(p)]

(***************************************************************************)
(* The envelope on its own: structured calls with any schema and reply     *)
(***************************************************************************)
\* replies to the knowledge-analysis and planning prompts
PlainReplies ==
    [kind : DegradedKinds, rest : {"ok"}]
    \cup [kind : {"json_object", "embedded_object"}, rest : {"ok", "missing", "invalid"}]

RepliesFor(schema) ==
    CASE schema = "SupervisorDecision"  -> SupervisorReplies
      [] schema = "MathExpertResponse"  -> MathReplies
      [] schema = "ExamCreatorResponse" -> ExamReplies
      [] schema = "ResponseEvaluation"  -> EvaluatorReplies
      [] OTHER                          -> PlainReplies

InitEnvelope ==
    /\ estado = EstadoInicial("hola")
    /\ before = estado
    /\ pc = "envelope"
    /\ path = <<>>
    /\ runStatus = "running"
    /\ runResult = NONE
    /\ lmDecision = NONE
    /\ lmMode = "any"
    /\ envelope = NoEnvelope
    /\ NoSession /\ NoKnowledge /\ NoOptimizer

\* llm.with_structured_output(schema).ainvoke(prompt)
InvokeStructured ==
    /\ pc = "envelope"
    /\ Len(path) < MaxCalls
    /\ \E schema \in Schemas : \E reply \in RepliesFor(schema) :
          /\ envelope' = Envelope(schema, reply)
          /\ path' = Append(path, schema)
    /\ UNCHANGED <<estado, before, pc, runStatus, runResult, lmDecision, lmMode>>
    /\ UNCHANGED <<sessionVars, knowledgeVars, gaVars>>

NextEnvelope == InvokeStructured

SpecEnvelope == InitEnvelope /\ [][NextEnvelope]_vars

(***************************************************************************)
(* The node functions on their own: a node applied to any state            *)
(***************************************************************************)
NodeStates ==
    {[EstadoInicial("hola") EXCEPT !.respuesta_math_expert = m,
                                   !.respuesta_exam_creator = x,
                                   !.respuesta_planning = p,
                                   !.estado_actual = t,
                                   !.respuesta_final = f,
                                   !.necesita_crawler = c] :
        m \in {NONE, "", "La explicación del modelo"},
        x \in {NONE, "", "# Examen del modelo"},
        p \in {NONE, "", "# Plan de Estudio Personalizado"},
        t \in {"inicio", "supervisor_decidio_FINISH"},
        f \in {NONE, "una respuesta anterior"},
        c \in BOOLEAN}

InitNodes ==
    /\ estado \in NodeStates
    /\ before = estado
    /\ pc = "node"
    /\ path = <<>>
    /\ runStatus = "running"
    /\ runResult = NONE
    /\ lmDecision = NONE
    /\ lmMode = "any"
    /\ envelope = NoEnvelope
    /\ NoSession /\ NoKnowledge /\ NoOptimizer

ApplyFinalizer ==
    /\ pc = "node"
    /\ Len(path) < MaxApplied
    /\ estado' = FinalizerChain(estado)
    /\ before' = estado
    /\ path' = Append(path, "finalizer")
    /\ UNCHANGED <<pc, runStatus, runResult, lmDecision, lmMode, envelope>>
    /\ UNCHANGED <<sessionVars, knowledgeVars, gaVars>>

NextNodes == ApplyFinalizer

SpecNodes == InitNodes /\ [][NextNodes]_vars

(***************************************************************************)
(* Properties                                                              *)
(***************************************************************************)
Specialists == {"math_expert", "exam_creator", "planning", "evaluator"}

\* every supervisor step of the run so far decided math_expert
AlwaysMathExpert ==
    /\ hops >= 1
    /\ \A i \in 1..Len(path) :
          path[i] = "supervisor" =>
              IF i < Len(path) THEN path[i + 1] = "math_expert"
              ELSE estado.tipo_ayuda_necesaria = "math_expert"

\* C1: Termination. When run(q) has returned, at most 12 supervisor hops
\* were made and what it returned is the state's final response, which is
\* not empty.
C1_Termination ==
    runStatus = "returned" =>
        /\ hops <= 12
        /\ Truthy(estado.respuesta_final)
        /\ runResult = estado.respuesta_final

\* C2: Supervisor oscillation. When run(q) has returned from a run in which
\* the supervisor decided math_expert on every hop, the last node executed
\* is the finalizer and the result is the math expert's response.
C2_OscillationForcesFinalizer ==
    (runStatus = "returned" /\ AlwaysMathExpert) =>
        /\ Last(path) = "finalizer"
        /\ runResult = estado.respuesta_math_expert

\* the specialist the rule engine selects for the query of this run
RuleEngineFirstChoice == CrearDecisionFallback(EstadoInicial(estado.consulta_inicial))

\* C3: LM degraded. When every LM call fails or returns malformed output and
\* run(q) has returned, the last node executed is the finalizer and the
\* result is the fallback content of the specialist the rule engine selects
\* for the query (never the message of an exception).
C3_DegradedReachesFinalizer ==
    (lmMode \in DegradedModes /\ runStatus = "returned") =>
        /\ Last(path) = "finalizer"
        /\ ~StartsWith(runResult, "Error: ")
        /\ IF RuleEngineFirstChoice = "exam_creator"
           THEN runResult = FormatExamOutput(CreateFallbackExam(estado.consulta_inicial, "principiante"))
           ELSE StartsWith(runResult, "Respuesta sobre: " \o estado.consulta_inicial)

\* C4: The LM envelope never raises. Every structured call returns a typed
\* value of its schema or the schema's default value.
C4_EnvelopeNeverRaises ==
    envelope.outcome \in {"none", "typed", "default"}

\* C5: Graph topology. The retriever is the first node executed and is
\* executed once; the node executed after a specialist is the supervisor;
\* the finalizer is executed only right after a supervisor step that decided
\* FINISH; nothing is executed after the finalizer.
C5_Topology ==
    /\ (path = <<>> => pc = "retriever")
    /\ (path # <<>> => path[1] = "retriever" /\ pc # "retriever")
    /\ \A i \in 2..Len(path) : path[i] # "retriever"
    /\ \A n \in Specialists : StaticEdges[n] = "supervisor"
    /\ \A i \in 1..Len(path) :
          /\ (path[i] \in Specialists /\ i < Len(path)) => path[i + 1] = "supervisor"
          /\ path[i] = "finalizer" =>
                 /\ i = Len(path)
                 /\ i > 1
                 /\ path[i - 1] = "supervisor"
                 /\ before.tipo_ayuda_necesaria = "FINISH"
    /\ (Last(path) \in Specialists => pc \in {"supervisor", "raised"})
    /\ (pc = "finalizer" => Last(path) = "supervisor" /\ estado.tipo_ayuda_necesaria = "FINISH")
    /\ (Last(path) = "finalizer" => pc = "END")

\* a run that went through a specialist, the evaluator and the finalizer
C5_Witness ==
    /\ runStatus = "returned"
    /\ Last(path) = "finalizer"
    /\ \E i \in 1..Len(path) : path[i] = "evaluator"
    /\ \E i \in 1..Len(path) : path[i] = "exam_creator"

\* C6: The edge out of the supervisor reaches each of the five targets.
\* Right after a supervisor step in which the LM's decision names math_expert,
\* exam_creator, evaluator, planning or FINISH, the node to execute next is
\* that target (the finalizer for FINISH).
C6_SupervisorEdgeReachesTargets ==
    (Last(path) = "supervisor" /\ pc # "raised" /\ lmDecision \in DOMAIN ConditionalEdges) =>
        pc = ConditionalEdges[lmDecision]

\* C7: Finalizer policy. After the finalizer, the final response is the math
\* expert's response if that was not empty, else the exam if not empty, else
\* the plan if not empty, else the fixed string; the tag is FINISH and the
\* final response is not empty.
C7_FinalizerPolicy ==
    Last(path) = "finalizer" =>
        /\ (Truthy(before.respuesta_math_expert) =>
                estado.respuesta_final = before.respuesta_math_expert)
        /\ (~Truthy(before.respuesta_math_expert) /\ Truthy(before.respuesta_exam_creator) =>
                estado.respuesta_final = before.respuesta_exam_creator)
        /\ (~Truthy(before.respuesta_math_expert) /\ ~Truthy(before.respuesta_exam_creator)
              /\ Truthy(before.respuesta_planning) =>
                estado.respuesta_final = before.respuesta_planning)
        /\ (~Truthy(before.respuesta_math_expert) /\ ~Truthy(before.respuesta_exam_creator)
              /\ ~Truthy(before.respuesta_planning) =>
                estado.respuesta_final = NoAdequateResponse)
        /\ estado.estado_actual = "FINISH"
        /\ Truthy(estado.respuesta_final)

\* the finalizer chose the exam over the plan, the explanation being empty
C7_Witness ==
    /\ Last(path) = "finalizer"
    /\ before.respuesta_math_expert = ""
    /\ Truthy(before.respuesta_exam_creator)
    /\ Truthy(before.respuesta_planning)
    /\ estado.respuesta_final = before.respuesta_exam_creator

\* C8: Idempotent finalizer. The finalizer applied to the state the
\* finalizer produced leaves the final response, and the whole state, as
\* they were.
C8_FinalizerIdempotent ==
    (Len(path) >= 2 /\ path[Len(path)] = "finalizer" /\ path[Len(path) - 1] = "finalizer") =>
        /\ estado.respuesta_final = before.respuesta_final
        /\ estado = before

\* the finalizer applied twice to a state that held an explanation and a
\* stale final response
C8_Witness ==
    /\ path = <<"finalizer", "finalizer">>
    /\ Truthy(estado.respuesta_math_expert)
    /\ estado.respuesta_final = estado.respuesta_math_expert
    /\ before.estado_actual = "FINISH"

\* the part of the state the rule engine is said to depend on: the query,
\* the responses, the state tag and the chat history
RoutingView(e) ==
    [EstadoInicial(e.consulta_inicial) EXCEPT
        !.respuesta_math_expert = e.respuesta_math_expert,
        !.respuesta_exam_creator = e.respuesta_exam_creator,
        !.respuesta_planning = e.respuesta_planning,
        !.estado_actual = e.estado_actual,
        !.chat_history = e.chat_history]

\* C9: Routing determinism under fallback. The rule engine's choice for a
\* state is its choice for the state's query, responses, tag and chat
\* history alone: two states that agree on these get the same next agent.
C9_RoutingDeterminism ==
    CrearDecisionFallback(estado) = CrearDecisionFallback(RoutingView(estado))

\* the rule engine is about to be asked about a state that differs from its
\* routing view (the student's level changed, documents were retrieved)
C9_Witness ==
    /\ pc = "supervisor"
    /\ estado.nivel_comprension = "avanzado"
    /\ estado.contexto_recuperado # <<>>
    /\ estado # RoutingView(estado)
    /\ CrearDecisionFallback(estado) = "evaluator"

\* C10: Invalid routing. Right after a supervisor step in which the LM gave
\* no decision or named an agent outside the allowed set, the node to
\* execute next is the rule engine's choice for the state the supervisor saw.
C10_InvalidRoutingUsesRuleEngine ==
    (Last(path) = "supervisor" /\ pc # "raised" /\ lmDecision \notin opciones_validas) =>
        pc = ConditionalEdges[CrearDecisionFallback(before)]

(***************************************************************************)
(* The student's knowledge: KnowledgeAnalyzerAgent.update_student_knowledge *)
(* applied to analyses the LM returns and to the fallback analysis          *)
(***************************************************************************)
\* two of the twenty areas of PreUniversityMathKnowledge
Areas == {"aritmetica_basica", "geometria_plana"}

\* the area as its default_factory builds it (confidence_level and
\* last_updated, which nothing modelled reads, are left out)
KnowledgeArea(name, difficulty) ==
    [name |-> name, score |-> 5, difficulty |-> difficulty, weight |-> 5,
     topics_mastered |-> <<>>, topics_struggling |-> <<>>]

PreUniversityMathKnowledge ==
    [a \in Areas |->
        IF a = "aritmetica_basica" THEN KnowledgeArea("Aritmética Básica", 3)
        ELSE KnowledgeArea("Geometría Plana", 9)]

\* the new_score values an analysis carries
NewScores == {-1, 7, 11}

\* the topic lists an analysis carries
TopicLists == {<<>>, <<"fracciones">>, <<"Análisis automático">>}

\* update_data: one value of knowledge_updates (a Dict the schema leaves
\* unconstrained). has_score: the key new_score is there. struggling_is_list:
\* topics_struggling is a list (FALSE: the key is there with null).
UpdateDatas ==
    [has_score : BOOLEAN, new_score : NewScores, topics_mastered : TopicLists,
     topics_struggling : TopicLists, struggling_is_list : BOOLEAN]

InList(x, list) == \E i \in 1..Len(list) : list[i] = x

\* for topic in new: if topic not in list: list.append(topic)
RECURSIVE AppendNew(_, _)
AppendNew(list, new) ==
    IF new = <<>> THEN list
    ELSE AppendNew(IF InList(new[1], list) THEN list ELSE Append(list, new[1]), Tail(new))

\* [t for t in list if t not in other]
RECURSIVE Without(_, _)
Without(list, other) ==
    IF list = <<>> THEN <<>>
    ELSE IF InList(list[1], other) THEN Without(Tail(list), other)
    ELSE <<list[1]>> \o Without(Tail(list), other)

\* lines 239-263 for one area: the area afterwards, and whether the
\* iteration over topics_struggling raised (None is not iterable)
UpdateArea(area, u) ==
    LET scored   == [area EXCEPT !.score = IF u.has_score THEN u.new_score ELSE @]
        mastered == [scored EXCEPT !.topics_mastered = AppendNew(@, u.topics_mastered)]
        merged   == [mastered EXCEPT !.topics_struggling = AppendNew(@, u.topics_struggling)]
    IN  IF u.struggling_is_list
        THEN [area   |-> [merged EXCEPT !.topics_struggling = Without(@, merged.topics_mastered)],
              raised |-> FALSE]
        ELSE [area |-> mastered, raised |-> TRUE]

\* update_student_knowledge: the loop over knowledge_updates.items(), which
\* skips the names that are no area and which an exception ends (the handler
\* at 280-281 keeps what was assigned so far)
RECURSIVE UpdateStudentKnowledge(_, _)
UpdateStudentKnowledge(areas, updates) ==
    IF updates = <<>> THEN areas
    ELSE LET area_name == updates[1][1]
             u         == updates[1][2]
         IN  IF area_name \notin DOMAIN areas
             THEN UpdateStudentKnowledge(areas, Tail(updates))
             ELSE LET r == UpdateArea(areas[area_name], u)
                      areas2 == [areas EXCEPT ![area_name] = r.area]
                  IN  IF r.raised THEN areas2
                      ELSE UpdateStudentKnowledge(areas2, Tail(updates))

Clamp(v) == IF v < 0 THEN 0 ELSE IF v > 10 THEN 10 ELSE v

\* _create_fallback_analysis: "no entiendo" is looked for in the area's
\* name, where it never is, so the score moves up by one
RECURSIVE CreateFallbackAnalysis(_, _)
CreateFallbackAnalysis(relevant, areas) ==
    IF relevant = <<>> THEN <<>>
    ELSE <<  <<relevant[1],
               [has_score |-> TRUE,
                new_score |-> Clamp(areas[relevant[1]].score
                                    + (IF Contains(relevant[1], "no entiendo") THEN -1 ELSE 1)),
                topics_mastered |-> <<>>,
                topics_struggling |-> <<"Análisis automático">>,
                struggling_is_list |-> TRUE]>>  >>
         \o CreateFallbackAnalysis(Tail(relevant), areas)

\* identify_relevant_areas: the areas whose topics the texts mention, in
\* the order list(set) gives them
RelevantAreas ==
    {<<"aritmetica_basica">>, <<"geometria_plana">>,
     <<"aritmetica_basica", "geometria_plana">>, <<"geometria_plana", "aritmetica_basica">>}

\* knowledge_updates of an analysis the LM returned: one entry, for an area
\* or for a name that is no area
LMAnalyses ==
    {<< <<a, u>> >> : a \in Areas \cup {"area_inexistente"}, u \in UpdateDatas}

\* whether the loop of update_student_knowledge ended in an exception
RECURSIVE UpdateRaised(_, _)
UpdateRaised(areas, updates) ==
    IF updates = <<>> THEN FALSE
    ELSE IF updates[1][1] \notin DOMAIN areas THEN UpdateRaised(areas, Tail(updates))
    ELSE UpdateArea(areas[updates[1][1]], updates[1][2]).raised
         \/ UpdateRaised([areas EXCEPT ![updates[1][1]] =
                              UpdateArea(areas[updates[1][1]], updates[1][2]).area],
                         Tail(updates))

\* sum(area.score for area in areas.values())
RECURSIVE SumScores(_, _)
SumScores(areas, names) ==
    IF names = {} THEN 0
    ELSE LET a == CHOOSE x \in names : TRUE
         IN  areas[a].score + SumScores(areas, names \ {a})

\* sync_legacy_fields: the level for get_overall_score() = sum / len(areas),
\* compared with 7.5 and 5.5 (both sides doubled)
SyncLegacyFields(areas) ==
    LET total == SumScores(areas, DOMAIN areas)
        n     == Cardinality(DOMAIN areas)
    IN  IF 2 * total >= 15 * n THEN "avanzado"
        ELSE IF 2 * total >= 11 * n THEN "intermedio"
        ELSE "principiante"

\* update_student_knowledge as a whole: the areas, and the level, which is
\* recomputed (lines 265-273) unless the loop raised (handler at 280-281);
\* fallback is the list of areas of the fallback analysis, if that was used
Updated(analysis, fallback) ==
    LET areas == UpdateStudentKnowledge(knowledge.areas, analysis)
    IN  [areas    |-> areas,
         updates  |-> knowledge.updates + 1,
         nivel    |-> IF UpdateRaised(knowledge.areas, analysis) THEN knowledge.nivel
                      ELSE SyncLegacyFields(areas),
         previous |-> knowledge.areas,
         fallback |-> fallback]

\* the queries of the interactions analysed; which areas are relevant is
\* decided by the explanation given, whose text is not modelled
KnowledgeQueries == {"hola", "no entiendo"}

InitKnowledge ==
    /\ \E consulta \in KnowledgeQueries : estado = EstadoInicial(consulta)
    /\ before = estado
    /\ pc = "knowledge"
    /\ path = <<>>
    /\ runStatus = "running"
    /\ runResult = NONE
    /\ lmDecision = NONE
    /\ lmMode = "any"
    /\ envelope = NoEnvelope
    /\ NoSession /\ NoOptimizer
    /\ knowledge = [areas |-> PreUniversityMathKnowledge, updates |-> 0,
                    nivel |-> "principiante", previous |-> PreUniversityMathKnowledge,
                    fallback |-> <<>>]

\* _analyze_and_update_knowledge when the LM's analysis is used
UpdateFromLMAnalysis ==
    /\ pc = "knowledge"
    /\ knowledge.updates < MaxUpdates
    /\ \E analysis \in LMAnalyses :
          knowledge' = Updated(analysis, <<>>)
    /\ UNCHANGED <<graphVars, sessionVars, gaVars>>

\* _analyze_and_update_knowledge when the LM call failed: the fallback analysis
UpdateFromFallbackAnalysis ==
    /\ pc = "knowledge"
    /\ knowledge.updates < MaxUpdates
    /\ \E relevant \in RelevantAreas :
          knowledge' = Updated(CreateFallbackAnalysis(relevant, knowledge.areas), relevant)
    /\ UNCHANGED <<graphVars, sessionVars, gaVars>>

NextKnowledge == UpdateFromLMAnalysis \/ UpdateFromFallbackAnalysis

SpecKnowledge == InitKnowledge /\ [][NextKnowledge]_vars

ElementsOf(list) == {list[i] : i \in 1..Len(list)}

\* C11: Score clamping. After any sequence of knowledge updates every
\* area's score, difficulty and weight are between 0 and 10.
C11_ScoreClamping ==
    \A a \in DOMAIN knowledge.areas :
        /\ knowledge.areas[a].score \in 0..10
        /\ knowledge.areas[a].difficulty \in 0..10
        /\ knowledge.areas[a].weight \in 0..10

\* C12: Disjoint topic sets. After every knowledge update no area has a
\* topic that is both mastered and struggling.
C12_DisjointTopics ==
    \A a \in DOMAIN knowledge.areas :
        ElementsOf(knowledge.areas[a].topics_mastered)
            \cap ElementsOf(knowledge.areas[a].topics_struggling) = {}

(***************************************************************************)
(* The study-plan optimizer (planner/genetic_algorithm.py).  Hours and     *)
(* difficulties are counted in tenths: 10 is 1.0.                          *)
(***************************************************************************)
Min(a, b) == IF a < b THEN a ELSE b

Max(a, b) == IF a > b THEN a ELSE b

Abs(a) == IF a < 0 THEN 0 - a ELSE a

Topic(name, exam_weight, base_difficulty) ==
    [name |-> name, exam_weight |-> exam_weight, base_difficulty |-> base_difficulty]

StudyBlock(topic, time_allocated, target_difficulty) ==
    [topic |-> topic, time_allocated |-> time_allocated, target_difficulty |-> target_difficulty]

StudyPlan(blocks, available_time) == [blocks |-> blocks, available_time |-> available_time]

\* official topics on the optimizer's own scale: weights and difficulties in 0..1
OptimizerTopics ==
    [n \in {"Algebra", "Geometry", "Calculus"} |->
        CASE n = "Algebra"  -> Topic(n, 5, 3)
          [] n = "Geometry" -> Topic(n, 3, 7)
          [] n = "Calculus" -> Topic(n, 2, 10)]

\* plannig_chain lines 79-86: one Topic per knowledge area, with the area's
\* weight and difficulty (integers 0..10) as exam_weight and base_difficulty
PlanningTopics(areas) ==
    [n \in {areas[a].name : a \in DOMAIN areas} |->
        LET a == CHOOSE a \in DOMAIN areas : areas[a].name = n
        IN  Topic(n, 10 * areas[a].weight, 10 * areas[a].difficulty)]

\* random.uniform(a, b), sampled at its two ends (a may exceed b)
RandomUniform(a, b) == {a, b}

\* random.choices in the place of random.sample: a topic may be drawn twice
Samples_WithReplacement(names, n) == [1..n -> names]

\* the orders random.sample and random.shuffle can give: n distinct topics
Samples(names, n) ==
    {s \in [1..n -> names] : \A i, j \in 1..n : i # j => s[i] # s[j]}

\* lines 20-37: the blocks built for the topics from position i on
RECURSIVE AllocateBlocks(_, _, _, _, _, _)
AllocateBlocks(topics, chosen, i, blocks, total_allocated, limits) ==
    IF i > Len(chosen) THEN {blocks}
    ELSE LET max_time_this_block == Min(limits.max_time_per_block,
                                        limits.available_time - total_allocated)
         IN  IF max_time_this_block < limits.min_time_per_block THEN {blocks}
             ELSE UNION {AllocateBlocks(topics, chosen, i + 1,
                                        Append(blocks, StudyBlock(chosen[i], t, d)),
                                        total_allocated + t, limits) :
                             t \in RandomUniform(limits.min_time_per_block, max_time_this_block),
                             d \in RandomUniform(topics[chosen[i]].base_difficulty, 10)}

\* generate_random_plan: every plan it can return
GenerateRandomPlan(topics, limits) ==
    LET top == Min(limits.max_blocks, Cardinality(DOMAIN topics))
    IN  {StudyPlan(blocks, limits.available_time) :
            blocks \in UNION {AllocateBlocks(topics, chosen, 1, <<>>, 0, limits) :
                                 chosen \in UNION {Samples(DOMAIN topics, n) :
                                                      n \in limits.min_blocks..top}}}

Limits(available_time, min_blocks, max_blocks) ==
    [available_time |-> available_time, min_blocks |-> min_blocks, max_blocks |-> max_blocks,
     min_time_per_block |-> 10, max_time_per_block |-> 50]

TopicNames(blocks) == [i \in 1..Len(blocks) |-> blocks[i].topic]

\* line 109 without its filter: every block of parent_b is kept
RECURSIVE Remaining_Unfiltered(_, _)
Remaining_Unfiltered(blocks, segment_topics) ==
    IF blocks = <<>> THEN <<>>
    ELSE <<blocks[1]>> \o Remaining_Unfiltered(Tail(blocks), segment_topics)

\* line 109: the blocks of parent_b whose topic is not in the segment
RECURSIVE Remaining(_, _)
Remaining(blocks, segment_topics) ==
    IF blocks = <<>> THEN <<>>
    ELSE IF blocks[1].topic \in segment_topics THEN Remaining(Tail(blocks), segment_topics)
    ELSE <<blocks[1]>> \o Remaining(Tail(blocks), segment_topics)

\* the inner function ox, with the cut at start, end (0-based, start < end)
Ox(parent_a, parent_b, start, end) ==
    LET segment   == SubSeq(parent_a.blocks, start + 1, end)
        remaining == Remaining(parent_b.blocks, ElementsOf(TopicNames(segment)))
    IN  StudyPlan(SubSeq(remaining, 1, Min(start, Len(remaining)))
                    \o segment
                    \o SubSeq(remaining, start + 1, Len(remaining)),
                  parent_a.available_time)

\* the cuts sorted(random.sample(range(len_blocks), 2)) can give
Cuts(len_blocks) == {c \in (0..(len_blocks - 1)) \X (0..(len_blocks - 1)) : c[1] < c[2]}

\* order_crossover: every pair of children it can return
OrderCrossover(parent1, parent2) ==
    LET len_blocks == Min(Len(parent1.blocks), Len(parent2.blocks))
    IN  IF len_blocks < 2 THEN {<<parent1, parent2>>}
        ELSE {<<Ox(parent1, parent2, c[1], c[2]), Ox(parent2, parent1, c[1], c[2])>> :
                 c \in Cuts(len_blocks)}

\* the deltas random.uniform(-range, range) is sampled at: for the time, the
\* one hour less that reaches the floor of line 147
TimeShifts == {-10}

DifficultyShifts == {-1, 1}

\* lines 145-155 for one block: every block it can become
MutateBlock(topics, block) ==
    {[block EXCEPT !.time_allocated = t, !.target_difficulty = d] :
        t \in {block.time_allocated}
              \cup {Max(5, block.time_allocated + delta) : delta \in TimeShifts},
        d \in {block.target_difficulty}
              \cup {Max(topics[block.topic].base_difficulty,
                        Min(10, block.target_difficulty + delta)) : delta \in DifficultyShifts}}

\* lines 138-140: the block orders after the optional swap
Swaps(blocks) ==
    {blocks} \cup {[blocks EXCEPT ![i] = blocks[j], ![j] = blocks[i]] :
                      i \in 1..Len(blocks), j \in 1..Len(blocks)}

RECURSIVE MutateBlocks(_, _)
MutateBlocks(topics, blocks) ==
    IF blocks = <<>> THEN {<<>>}
    ELSE {<<b>> \o rest : b \in MutateBlock(topics, blocks[1]),
                          rest \in MutateBlocks(topics, Tail(blocks))}

\* mutate: every plan it can return
Mutate(topics, plan) ==
    {StudyPlan(blocks, plan.available_time) :
        blocks \in UNION {MutateBlocks(topics, swapped) : swapped \in Swaps(plan.blocks)}}

(***************************************************************************)
(* Plans on their own: a random plan, then crossovers and mutations        *)
(***************************************************************************)
\* the limits the optimizer is given for the topics on its own scale
OptimizerLimits == Limits(30, 1, 3)

\* plannig_chain line 93: 40 hours, from 1 to len(topics) blocks
PlanningLimits(topics) == Limits(400, 1, Cardinality(DOMAIN topics))

\* whose topics the plans are built for
Scenarios ==
    {[topics |-> OptimizerTopics, limits |-> OptimizerLimits],
     [topics |-> PlanningTopics(PreUniversityMathKnowledge),
      limits |-> PlanningLimits(PlanningTopics(PreUniversityMathKnowledge))]}

GraphIdle(position) ==
    /\ estado = EstadoInicial("hola")
    /\ before = estado
    /\ pc = position
    /\ path = <<>>
    /\ runStatus = "running"
    /\ runResult = NONE
    /\ lmDecision = NONE
    /\ lmMode = "any"
    /\ envelope = NoEnvelope

InitPlans ==
    /\ GraphIdle("plans")
    /\ NoSession /\ NoKnowledge
    /\ \E scenario \in Scenarios :
          /\ official_topics = scenario.topics
          /\ \E plan \in GenerateRandomPlan(scenario.topics, scenario.limits) :
                population = <<plan>>
    /\ best_plan = <<>>
    /\ generation = 0
    /\ selected = <<>>
    /\ offspring = <<>>
    /\ gaStatus = "plans"

LimitsOf(topics) ==
    IF topics = OptimizerTopics THEN OptimizerLimits ELSE PlanningLimits(topics)

\* order_crossover(population[0], another random plan): the two children
CrossoverPlans ==
    /\ gaStatus = "plans"
    /\ generation < MaxPlanOps
    /\ \E other \in GenerateRandomPlan(official_topics, LimitsOf(official_topics)) :
       \E children \in OrderCrossover(population[1], other) :
          /\ selected' = <<population[1], other>>
          /\ population' = children
    /\ generation' = generation + 1
    /\ UNCHANGED <<graphVars, sessionVars, knowledgeVars, official_topics, best_plan, offspring,
                   gaStatus>>

\* mutate(population[0])
MutatePlan ==
    /\ gaStatus = "plans"
    /\ generation < MaxPlanOps
    /\ \E mutated \in Mutate(official_topics, population[1]) :
          /\ selected' = <<population[1]>>
          /\ population' = <<mutated>>
    /\ generation' = generation + 1
    /\ UNCHANGED <<graphVars, sessionVars, knowledgeVars, official_topics, best_plan, offspring,
                   gaStatus>>

NextPlans == CrossoverPlans \/ MutatePlan

SpecPlans == InitPlans /\ [][NextPlans]_vars

\* a plan none of whose topics appears in two blocks
UniqueTopics(plan) ==
    \A i, j \in 1..Len(plan.blocks) : i # j => plan.blocks[i].topic # plan.blocks[j].topic

\* the state left by order_crossover: its two parents and its two children
Crossed == gaStatus = "plans" /\ Len(selected) = 2

\* C14: for any two parents with pairwise-distinct topics, of any lengths and
\* at any cut, both children of order_crossover have pairwise-distinct topics.
C14_CrossoverPreservesUniqueness ==
    (Crossed /\ UniqueTopics(selected[1]) /\ UniqueTopics(selected[2]))
        => (UniqueTopics(population[1]) /\ UniqueTopics(population[2]))

\* a crossover of parents of different lengths and different topics that
\* returned children other than the parents
C14_Witness ==
    /\ Crossed
    /\ UniqueTopics(selected[1]) /\ UniqueTopics(selected[2])
    /\ Len(selected[1].blocks) = 3 /\ Len(selected[2].blocks) = 2
    /\ ElementsOf(TopicNames(selected[2].blocks)) # ElementsOf(TopicNames(selected[1].blocks))
    /\ population[1] # selected[1] /\ population[2] # selected[2]
    /\ Len(population[2].blocks) = 3

\* the bounds of one block: at least half an hour, and a target difficulty
\* between the base difficulty of its topic and 1.0
BlockInBounds(topics, block) ==
    /\ block.time_allocated >= 5
    /\ block.target_difficulty >= topics[block.topic].base_difficulty
    /\ block.target_difficulty <= 10

\* C18: every block of every plan, generated, crossed or mutated, has
\* time_allocated >= 0.5 and target_difficulty within [topic.base_difficulty,
\* 1.0], the plans built from the student's knowledge areas included.
C18_BlockInvariant ==
    gaStatus = "plans" =>
        \A p \in 1..Len(population) : \A b \in 1..Len(population[p].blocks) :
            BlockInBounds(official_topics, population[p].blocks[b])

(***************************************************************************)
(* The fitness of a plan (planner/evaluation.py), in units of 1e-5.  Times *)
(* and difficulties are in tenths, masteries in tenths of the 0..1 scale;  *)
(* each of the four quotients is rounded down to thousandths.              *)
(***************************************************************************)
Student(topic_mastery, target_score) ==
    [topic_mastery |-> topic_mastery, target_score |-> target_score]

\* the student the plans are evaluated for: masteries 0.7, 0.4, 0.2 on the
\* optimizer's scale, or the scores of the knowledge areas (plannig_chain
\* lines 85-91: every area of a new student has score 5)
StudentFor(topics) ==
    IF topics = PlanningTopics(PreUniversityMathKnowledge)
    THEN Student([n \in DOMAIN topics |-> 50], 100)
    ELSE Student([n \in DOMAIN topics |->
                    CASE n = "Algebra" -> 7 [] n = "Geometry" -> 4 [] OTHER -> 2], 100)

\* lines 10-15: the blocks whose topic is official
RECURSIVE Counted(_, _)
Counted(blocks, topics) ==
    IF blocks = <<>> THEN <<>>
    ELSE IF blocks[1].topic \in DOMAIN topics
         THEN <<blocks[1]>> \o Counted(Tail(blocks), topics)
         ELSE Counted(Tail(blocks), topics)

RECURSIVE TotalTime(_)
TotalTime(blocks) ==
    IF blocks = <<>> THEN 0 ELSE blocks[1].time_allocated + TotalTime(Tail(blocks))

\* lines 20-21: sum of time * (1 - mastery * 0.1), times 1000
RECURSIVE WeaknessFocus(_, _)
WeaknessFocus(blocks, student) ==
    IF blocks = <<>> THEN 0
    ELSE LET current_mastery ==
                 IF blocks[1].topic \in DOMAIN student.topic_mastery
                 THEN student.topic_mastery[blocks[1].topic] ELSE 0
         IN  blocks[1].time_allocated * (100 - current_mastery)
               + WeaknessFocus(Tail(blocks), student)

\* lines 23-25: sum of the jumps of difficulty between consecutive blocks
RECURSIVE DifficultyPenalty(_)
DifficultyPenalty(blocks) ==
    IF Len(blocks) < 2 THEN 0
    ELSE Abs(blocks[2].target_difficulty - blocks[1].target_difficulty)
           + DifficultyPenalty(Tail(blocks))

EvaluatePlan(plan, student, topics) ==
    LET blocks     == Counted(plan.blocks, topics)
        total_time == TotalTime(blocks)
        coverage   == (1000 * Cardinality(ElementsOf(TopicNames(blocks)) \cap DOMAIN topics))
                        \div Cardinality(DOMAIN topics)
        normalized_focus == (10 * WeaknessFocus(blocks, student)) \div Max(10, total_time)
        efficiency == IF total_time <= plan.available_time THEN 1000
                      ELSE 10000 \div (10 + (total_time - plan.available_time))
        smoothness == 10000 \div (10 + DifficultyPenalty(blocks))
    IN  25 * coverage + 30 * normalized_focus + 15 * efficiency + 10 * smoothness

\* the fitness_fn a caller of evolve_population passes: evaluate_plan closed
\* over the student and the official topics
Fitness(plan) == EvaluatePlan(plan, StudentFor(official_topics), official_topics)

(***************************************************************************)
(* The evolution loop (evolve_population) and its two callers              *)
(***************************************************************************)
\* the random plans of the initial populations: those where every
\* random.uniform gave its lower end
SeedPlans(topics, limits) ==
    {plan \in GenerateRandomPlan(topics, limits) :
        \A b \in 1..Len(plan.blocks) :
            /\ plan.blocks[b].time_allocated = limits.min_time_per_block
            /\ plan.blocks[b].target_difficulty = topics[plan.blocks[b].topic].base_difficulty}

\* generate_population: pop_size random plans
GeneratePopulation(pop_size, plans) == [1..pop_size -> plans]

\* the sizes of the initial population: even with offspring, odd, and even
\* with a single pair
PopulationSizes == {2, 3, 4}

EvolveTopics == [n \in {"Algebra", "Geometry"} |-> OptimizerTopics[n]]

\* two hours for two blocks of at least one hour
EvolveLimits == Limits(20, 2, 2)

\* who calls evolve_population, and how
Callers ==
    {[call |-> "evolve_population(population, fitness_fn, num_generations)",
      topics |-> EvolveTopics, limits |-> EvolveLimits],
     [call |-> "evolve_population(population, evaluate_plan, topics=, student=, num_generations=)",
      topics |-> PlanningTopics(PreUniversityMathKnowledge),
      limits |-> PlanningLimits(PlanningTopics(PreUniversityMathKnowledge))]}

\* the keyword arguments evolve_population accepts (lines 159-163)
AcceptsCall(call) == call = "evolve_population(population, fitness_fn, num_generations)"

\* max(plans, key=fitness_fn): the first plan of the greatest fitness
MaxBy(plans) ==
    plans[CHOOSE i \in 1..Len(plans) :
            /\ \A j \in 1..Len(plans) : Fitness(plans[i]) >= Fitness(plans[j])
            /\ \A j \in 1..(i - 1) : Fitness(plans[j]) < Fitness(plans[i])]

\* min(range(len(plans)), key=...): the first index of the least fitness
WorstIdx(plans) ==
    CHOOSE i \in 1..Len(plans) :
        /\ \A j \in 1..Len(plans) : Fitness(plans[i]) <= Fitness(plans[j])
        /\ \A j \in 1..(i - 1) : Fitness(plans[j]) > Fitness(plans[i])

\* random.shuffle: the orders of n elements
Shuffles(n) == {f \in [1..n -> 1..n] : \A i, j \in 1..n : i # j => f[i] # f[j]}

\* lines 85-89 on an even-sized shuffled list: the winner of each pair
RECURSIVE Winners(_)
Winners(shuffled) ==
    IF shuffled = <<>> THEN <<>>
    ELSE <<MaxBy(<<shuffled[1], shuffled[2]>>)>> \o Winners(SubSeq(shuffled, 3, Len(shuffled)))

\* lines 178-182: the children of the pairs selected[i], selected[i + 1];
\* a last plan without a pair has no children
RECURSIVE CrossPairs(_)
CrossPairs(plans) ==
    IF Len(plans) < 2 THEN {<<>>}
    ELSE {children \o rest : children \in OrderCrossover(plans[1], plans[2]),
                             rest \in CrossPairs(SubSeq(plans, 3, Len(plans)))}

\* line 185: every child mutated
RECURSIVE MutateAll(_, _)
MutateAll(topics, plans) ==
    IF plans = <<>> THEN {<<>>}
    ELSE {<<mutated>> \o rest : mutated \in Mutate(topics, plans[1]),
                                rest \in MutateAll(topics, Tail(plans))}

\* lines 189-191 with the comparison turned round: the best offspring
\* replaces the best plan when it is worse
BestSoFar_Worse(best, mutated_offspring) ==
    IF Fitness(MaxBy(mutated_offspring)) < Fitness(best)
    THEN MaxBy(mutated_offspring) ELSE best

\* lines 189-191: the best plan after a generation
BestSoFar(best, mutated_offspring) ==
    IF Fitness(MaxBy(mutated_offspring)) > Fitness(best)
    THEN MaxBy(mutated_offspring) ELSE best

\* a generation whose offspring go on as they are, the best plan left out
NextPopulation_Offspring(best, mutated_offspring) == mutated_offspring

\* lines 194-198: the best plan takes the place of the worst offspring
NextPopulation(best, mutated_offspring) ==
    [mutated_offspring EXCEPT ![WorstIdx(mutated_offspring)] = best]

InitEvolve ==
    /\ GraphIdle("optimizer")
    /\ NoSession /\ NoKnowledge
    /\ \E caller \in Callers :
          /\ official_topics = caller.topics
          /\ gaStatus = caller.call
          /\ \E pop_size \in PopulationSizes :
                population \in GeneratePopulation(pop_size,
                                                  SeedPlans(caller.topics, caller.limits))
    /\ best_plan = <<>>
    /\ generation = 0
    /\ selected = <<>>
    /\ offspring = <<>>

Called == gaStatus \in {c.call : c \in Callers}

\* plannig_chain line 94: evolve_population has no parameter topics or student
UnexpectedKeyword ==
    /\ Called /\ ~AcceptsCall(gaStatus)
    /\ gaStatus' = "TypeError"
    /\ UNCHANGED <<graphVars, sessionVars, knowledgeVars, official_topics, population,
                   best_plan, generation, selected, offspring>>

\* line 171
EvolveStart ==
    /\ Called /\ AcceptsCall(gaStatus)
    /\ best_plan' = MaxBy(population)
    /\ gaStatus' = "generation"
    /\ UNCHANGED <<graphVars, sessionVars, knowledgeVars, official_topics, population,
                   generation, selected, offspring>>

\* line 175 on a population of even size
TournamentSelection ==
    /\ gaStatus = "generation" /\ generation < NumGenerations
    /\ Len(population) % 2 = 0
    /\ \E order \in Shuffles(Len(population)) :
          selected' = Winners([i \in 1..Len(population) |-> population[order[i]]])
    /\ gaStatus' = "selected"
    /\ UNCHANGED <<graphVars, sessionVars, knowledgeVars, official_topics, population,
                   best_plan, generation, offspring>>

\* line 175 on a population of odd size: line 83 pops the last plan of the
\* caller's list, the copy shuffled keeps its odd length, and line 87 reads
\* past its end
TournamentIndexError ==
    /\ gaStatus = "generation" /\ generation < NumGenerations
    /\ Len(population) % 2 = 1
    /\ population' = SubSeq(population, 1, Len(population) - 1)
    /\ gaStatus' = "IndexError"
    /\ UNCHANGED <<graphVars, sessionVars, knowledgeVars, official_topics, best_plan,
                   generation, selected, offspring>>

\* lines 178-182
Crossover ==
    /\ gaStatus = "selected"
    /\ offspring' \in CrossPairs(selected)
    /\ gaStatus' = "crossed"
    /\ UNCHANGED <<graphVars, sessionVars, knowledgeVars, official_topics, population,
                   best_plan, generation, selected>>

\* lines 185-198 with offspring: mutation, elitism, the next population
MutateAndAdvance ==
    /\ gaStatus = "crossed" /\ offspring # <<>>
    /\ \E mutated_offspring \in MutateAll(official_topics, offspring) :
          /\ best_plan' = BestSoFar(best_plan, mutated_offspring)
          /\ population' = NextPopulation(best_plan', mutated_offspring)
    /\ generation' = generation + 1
    /\ gaStatus' = "generation"
    /\ UNCHANGED <<graphVars, sessionVars, knowledgeVars, official_topics, selected, offspring>>

\* line 189 without offspring: max() of an empty list
EmptyOffspring ==
    /\ gaStatus = "crossed" /\ offspring = <<>>
    /\ gaStatus' = "ValueError"
    /\ UNCHANGED <<graphVars, sessionVars, knowledgeVars, official_topics, population,
                   best_plan, generation, selected, offspring>>

\* line 200
EvolveReturns ==
    /\ gaStatus = "generation" /\ generation = NumGenerations
    /\ gaStatus' = "returned"
    /\ UNCHANGED <<graphVars, sessionVars, knowledgeVars, official_topics, population,
                   best_plan, generation, selected, offspring>>

NextEvolve ==
    \/ UnexpectedKeyword
    \/ EvolveStart
    \/ TournamentSelection
    \/ TournamentIndexError
    \/ Crossover
    \/ MutateAndAdvance
    \/ EmptyOffspring
    \/ EvolveReturns

SpecEvolve == InitEvolve /\ [][NextEvolve]_vars

\* evolve_population has computed its first best plan
Started == gaStatus \in {"generation", "selected", "crossed", "returned",
                         "IndexError", "ValueError"}

AllUnique(plans) == \A p \in 1..Len(plans) : UniqueTopics(plans[p])

\* C13: every plan the optimizer holds (the random plans of the initial
\* population, the selected plans, the children of the crossover, the
\* mutated plans of every generation's population, the best plan tracked and
\* returned) has pairwise-distinct topics.
C13_PlanUniqueness ==
    /\ gaStatus # "idle" =>
          AllUnique(population) /\ AllUnique(selected) /\ AllUnique(offspring)
    /\ Started => UniqueTopics(best_plan)

\* evolve_population has finished a generation whose mutated offspring gave
\* a new best plan
C13_Witness ==
    /\ gaStatus \in {"generation", "returned"}
    /\ generation >= 1
    /\ Len(offspring) = 2
    /\ best_plan \notin SeedPlans(EvolveTopics, EvolveLimits)
    /\ \E p \in 1..Len(population) : population[p] = best_plan

\* C15: with elitism, the fitness of the best plan tracked by
\* evolve_population never decreases from one step to the next.
C15_MonotonicElite ==
    [][(Started /\ Started') => Fitness(best_plan') >= Fitness(best_plan)]_vars

\* a generation has replaced the best plan by a fitter mutated child, and the
\* worst child by that best plan
C15_Witness ==
    /\ gaStatus = "generation"
    /\ generation = 1
    /\ Fitness(best_plan) > Fitness(MaxBy(selected))
    /\ \A p \in 1..Len(selected) : Fitness(selected[p]) < Fitness(best_plan)
    /\ \E p \in 1..Len(population) : population[p] = best_plan

\* C16: evolve_population, called on a population of any of the sizes, runs
\* all its generations without an error and returns the final population
\* and the best plan.
C16_AllGenerationsRun ==
    /\ gaStatus \notin {"IndexError", "ValueError", "TypeError"}
    /\ gaStatus = "returned" => generation = NumGenerations

\* C17: on a population of odd size N, the tournament selection returns
\* ceil(N/2) plans (the winner of each pair and the plan left over) without
\* an error.
C17_OddSelection ==
    [][(gaStatus = "generation" /\ generation < NumGenerations /\ Len(population) % 2 = 1)
          => (gaStatus' = "selected" /\ Len(selected') = (Len(population) + 1) \div 2)]_vars

(***************************************************************************)
(* End-to-end scenarios                                                    *)
(***************************************************************************)
\* a query with a mathematics keyword and no exam keyword
PureExplanationQuery(consulta) ==
    KeywordHits[consulta].matematicas /\ ~KeywordHits[consulta].examen

ExpectedExplanationPath ==
    <<"retriever", "supervisor", "math_expert", "supervisor", "evaluator", "supervisor",
      "finalizer">>

HasEntry(chat_history, role) == \E i \in 1..Len(chat_history) : chat_history[i].role = role

\* C19: a run for a query with a mathematics keyword and no exam keyword,
\* where every routing decision is the rule engine's (the LM gives the
\* supervisor no usable decision), runs exactly retriever, supervisor,
\* math_expert, supervisor, evaluator, supervisor, finalizer, and ends with
\* respuesta_math_expert set and an evaluator entry in chat_history.
C19_PureExplanationPath ==
    (runStatus = "returned" /\ lmMode \in DegradedModes
        /\ PureExplanationQuery(estado.consulta_inicial))
        => /\ path = ExpectedExplanationPath
           /\ Truthy(estado.respuesta_math_expert)
           /\ HasEntry(estado.chat_history, "evaluator")

(***************************************************************************)
(* A session: run called again after it returned (main.py                  *)
(* process_with_agents calls pipeline.run once per user message)           *)
(***************************************************************************)
\* s[-n:]
LastN(s, n) == SubSeq(s, Max(1, Len(s) - n + 1), Len(s))

\* s[:n]
FirstN(s, n) == SubSeq(s, 1, Min(n, Len(s)))

\* the part of the context line 247-252 builds for one message ("" for the
\* other roles)
ContextoParte(mensaje) ==
    CASE mensaje.role = "exam_creator" ->
           "EXAMEN CREADO PREVIAMENTE:\n" \o mensaje.content \o "\n"
      [] mensaje.role = "math_expert" ->
           "EXPLICACIÓN PREVIA:\n" \o FirstN(mensaje.content, 300) \o "...\n"
      [] mensaje.role = "user" ->
           "CONSULTA DEL USUARIO:\n" \o FirstN(mensaje.content, 300) \o "...\n"
      [] OTHER -> ""

RECURSIVE JoinPartes(_)
JoinPartes(mensajes) ==
    IF mensajes = <<>> THEN ""
    ELSE IF ContextoParte(mensajes[1]) = "" THEN JoinPartes(Tail(mensajes))
    ELSE LET rest == JoinPartes(Tail(mensajes))
         IN  IF rest = "" THEN ContextoParte(mensajes[1])
             ELSE ContextoParte(mensajes[1]) \o "\n" \o rest

\* _extraer_contexto_conversacional: the conversational context of the
\* math expert's prompt
ExtraerContextoConversacional(e) ==
    LET contexto == JoinPartes(LastN(e.chat_history, 5))
    IN  IF contexto = "" THEN "No hay contexto conversacional previo." ELSE contexto

InitSession == InitRun(DegradedModes)

\* run(consulta) called again: a new EstadoConversacion (lines 227-230)
StartRun ==
    /\ runStatus = "returned"
    /\ Len(session) + 1 < MaxRuns
    /\ session' = Append(session, estado)
    /\ \E consulta \in Queries : estado' = EstadoInicial(consulta)
    /\ before' = estado'
    /\ pc' = "retriever"
    /\ path' = <<>>
    /\ runStatus' = "running"
    /\ runResult' = NONE
    /\ lmDecision' = NONE
    /\ UNCHANGED <<lmMode, envelope, knowledgeVars, gaVars>>

NextSession == Next \/ StartRun

SpecSession == InitSession /\ [][NextSession]_vars

\* the exam_creator entries the previous run left in its chat_history
PriorExamEntries ==
    IF session = <<>> THEN {}
    ELSE {m \in ElementsOf(session[Len(session)].chat_history) : m.role = "exam_creator"}

\* C20: in a run that follows a run which produced an exam, chat_history
\* contains the previous run's exam_creator entry, and when the math expert
\* is about to run, the conversational context of its prompt contains the
\* text of that exam.
C20_AnaphoricFollowUp ==
    \A m \in PriorExamEntries :
        /\ m \in ElementsOf(estado.chat_history)
        /\ pc = "math_expert" => Contains(ExtraerContextoConversacional(estado), m.content)

(***************************************************************************)
(* The rule engine as a function of the conversation state: it is applied  *)
(* to states with every combination of query, responses, tag and history   *)
(***************************************************************************)
MaxSteps == 1

\* the values estado_actual takes in the agents' code
StateTags == {"inicio", "retriever_completado", "math_expert_completado", "exam_creator_completado",
              "planning_agent_completado", "math_expert_evaluado", "exam_creator_evaluado",
              "evaluator_completado"}

EvaluatedTags == {"evaluator_completado", "math_expert_evaluado", "exam_creator_evaluado"}

\* chat histories: none, the query itself, an entry of an earlier turn
Histories(consulta) ==
    {<<>>, <<Mensaje("user", consulta)>>, <<Mensaje("user", "una consulta anterior")>>}

RuleStates ==
    UNION {{[EstadoInicial(consulta) EXCEPT
               !.respuesta_math_expert = m,
               !.respuesta_exam_creator = x,
               !.respuesta_planning = p,
               !.estado_actual = tag,
               !.chat_history = h] :
               m \in {NONE, "La explicación"}, x \in {NONE, "El examen"},
               p \in {NONE, "El plan"}, tag \in StateTags, h \in Histories(consulta)} :
           consulta \in Queries}

InitRules ==
    /\ estado \in RuleStates
    /\ before = estado
    /\ pc = "supervisor"
    /\ path = <<>>
    /\ runStatus = "running"
    /\ runResult = NONE
    /\ lmDecision = NONE
    /\ lmMode = <<>>
    /\ envelope = NoEnvelope
    /\ NoSession /\ NoKnowledge /\ NoOptimizer

\* decision = self._crear_decision_fallback(state); tipo_ayuda_necesaria = decision.next_agent
ApplyRuleEngine ==
    /\ Len(path) < MaxSteps
    /\ before' = estado
    /\ estado' = [estado EXCEPT !.tipo_ayuda_necesaria = CrearDecisionFallback(estado)]
    /\ path' = Append(path, "rule_engine")
    /\ UNCHANGED <<pc, runStatus, runResult, lmDecision, lmMode, envelope>>
    /\ UNCHANGED <<sessionVars, knowledgeVars, gaVars>>

NextRules == ApplyRuleEngine

SpecRules == InitRules /\ [][NextRules]_vars

\* the rule engine has just chosen for the state in `before`
RuleApplied == path # <<>> /\ Last(path) = "rule_engine"

Choice == estado.tipo_ayuda_necesaria

RuleOne(e) == KeywordHits[e.consulta_inicial].examen /\ ~Truthy(e.respuesta_exam_creator)

RuleTwo(e) ==
    /\ ~RuleOne(e)
    /\ KeywordHits[e.consulta_inicial].matematicas
    /\ ~Truthy(e.respuesta_math_expert)
    /\ ~Truthy(e.respuesta_exam_creator)

\* C27: Rule engine, rules 1-2. A query with an exam keyword and no exam
\* response gives exam_creator whatever the tag and the other responses are;
\* otherwise a query with a mathematics keyword and neither a math nor an
\* exam response gives math_expert.
C27_RulesOneTwo ==
    RuleApplied =>
        /\ RuleOne(before) => Choice = "exam_creator"
        /\ RuleTwo(before) => Choice = "math_expert"

\* rule 1 fired for a query with both kinds of keyword although the state
\* carries an evaluated tag, a math response and a planning response
C27_Witness ==
    /\ RuleApplied
    /\ before.consulta_inicial = "Explica el Test"
    /\ before.estado_actual = "math_expert_evaluado"
    /\ Truthy(before.respuesta_math_expert)
    /\ Truthy(before.respuesta_planning)
    /\ Choice = "exam_creator"

RuleThree(e) ==
    /\ Truthy(e.respuesta_exam_creator)
    /\ e.estado_actual \notin {"evaluator_completado", "exam_creator_evaluado"}

RuleFour(e) ==
    /\ ~RuleThree(e)
    /\ Truthy(e.respuesta_math_expert)
    /\ e.estado_actual \notin {"evaluator_completado", "math_expert_evaluado"}

RuleFive(e) == ~RuleThree(e) /\ ~RuleFour(e) /\ e.estado_actual \in EvaluatedTags

\* C28: Rule engine, rules 3-5. When rules 1-2 do not apply: an exam
\* response with a tag outside {evaluator_completado, exam_creator_evaluado}
\* gives evaluator; else a math response with a tag outside
\* {evaluator_completado, math_expert_evaluado} gives evaluator; else a tag
\* among the three evaluated tags gives FINISH.
C28_RulesThreeToFive ==
    (RuleApplied /\ ~RuleOne(before) /\ ~RuleTwo(before)) =>
        /\ RuleThree(before) => Choice = "evaluator"
        /\ RuleFour(before) => Choice = "evaluator"
        /\ RuleFive(before) => Choice = "FINISH"

\* an exam response whose tag says the math response was evaluated is sent
\* to the evaluator by rule 3
C28_Witness ==
    /\ RuleApplied
    /\ ~RuleOne(before) /\ ~RuleTwo(before)
    /\ Truthy(before.respuesta_exam_creator)
    /\ before.estado_actual = "math_expert_evaluado"
    /\ Choice = "evaluator"

AnyResponse(e) ==
    \/ Truthy(e.respuesta_math_expert)
    \/ Truthy(e.respuesta_exam_creator)
    \/ Truthy(e.respuesta_planning)

RulesOneToFive(e) == RuleOne(e) \/ RuleTwo(e) \/ RuleThree(e) \/ RuleFour(e) \/ RuleFive(e)

\* C29: Rule engine, rules 6-7. When rules 1-5 do not apply, the choice is
\* FINISH if any response (math, exam or planning) exists, whatever the chat
\* history is, and math_expert only if no response exists at all.
C29_RulesSixSeven ==
    (RuleApplied /\ ~RulesOneToFive(before)) =>
        Choice = (IF AnyResponse(before) THEN "FINISH" ELSE "math_expert")

\* str.split on spaces: the keyword is delimited by the ends of the text or
\* by spaces
WholeWord(text, kw) ==
    \E i \in 1..(Len(text) + 1 - Len(kw)) :
        /\ SubSeq(text, i, i + Len(kw) - 1) = kw
        /\ (i = 1 \/ SubSeq(text, i - 1, i - 1) = " ")
        /\ (i + Len(kw) - 1 = Len(text) \/ SubSeq(text, i + Len(kw), i + Len(kw)) = " ")

WholeWordExam ==
    [consulta \in Queries |-> \E palabra \in palabras_examen : WholeWord(Lower(consulta), palabra)]

\* C30: Rule engine, keyword matching. A keyword matches only as a whole
\* word of the query: a query whose words include no exam keyword is not
\* sent to exam_creator because a keyword occurs inside a longer word.
C30_WholeWordMatching ==
    (RuleApplied /\ ~WholeWordExam[before.consulta_inicial]) => Choice # "exam_creator"

(***************************************************************************)
(* The specialist and evaluator nodes on their own: a node applied to a    *)
(* state, with the LM replying anything and with an unexpected failure     *)
(* raised inside the node                                                  *)
(***************************************************************************)
\* the tags a node can find: the supervisor's, the specialists', the evaluator's
StepTags == {"supervisor_decidio_evaluator", "math_expert_completado", "exam_creator_completado",
             "planning_agent_completado", "math_expert_evaluado", "exam_creator_evaluado",
             "evaluator_completado"}

\* evaluator_completado is the tag the evaluator leaves after it evaluated a
\* response that is neither the explanation nor the exam (line 128)
StepStates ==
    {e \in {[EstadoInicial("hola") EXCEPT !.respuesta_math_expert = m,
                                          !.respuesta_exam_creator = x,
                                          !.respuesta_planning = p,
                                          !.estado_actual = t] :
               m \in {NONE, "La explicación"}, x \in {NONE, "El examen"},
               p \in {NONE, "El plan"}, t \in StepTags} :
        e.estado_actual = "evaluator_completado" => Truthy(e.respuesta_planning)}

InitSteps ==
    /\ estado \in StepStates
    /\ before = estado
    /\ pc = "node"
    /\ path = <<>>
    /\ runStatus = "running"
    /\ runResult = NONE
    /\ lmDecision = NONE
    /\ lmMode = "any"
    /\ envelope = NoEnvelope
    /\ NoSession /\ NoKnowledge /\ NoOptimizer

\* math_expert_chain, except Exception (lines 177-181)
MathExpertError(e) ==
    [e EXCEPT !.respuesta_math_expert = "Lo siento, ocurrió un error al procesar tu consulta matemática.",
              !.estado_actual = "math_expert_error"]

\* exam_creator_chain, except Exception (lines 265-288)
ExamCreatorError(e) ==
    LET emergencia == "Examen sobre: " \o e.consulta_inicial
                      \o "\n\n1. Explica los conceptos fundamentales"
                      \o "\n2. Resuelve un ejercicio básico"
                      \o "\n3. Aplica los conocimientos a un problema práctico"
    IN  [e EXCEPT !.respuesta_exam_creator = emergencia,
                  !.estado_actual = "exam_creator_completado",
                  !.chat_history = Append(@, Mensaje("exam_creator", emergencia))]

\* evaluator_chain, except Exception (lines 136-139)
EvaluatorError(e) == [e EXCEPT !.estado_actual = "evaluator_error"]

\* one execution of a node that returns: fault says whether a failure was
\* raised on entering the node's try block; lmDecision keeps the fault and
\* the LM's replies to the structured and the raw call
Step(node, e2, fault, r1, r2) ==
    /\ estado' = e2
    /\ before' = estado
    /\ path' = Append(path, node)
    /\ pc' = StaticEdges[node]
    /\ lmDecision' = [fault |-> fault, r1 |-> r1, r2 |-> r2]
    /\ UNCHANGED <<runStatus, runResult, lmMode, envelope>>
    /\ UNCHANGED <<sessionVars, knowledgeVars, gaVars>>

CanStep == runStatus = "running" /\ Len(path) < MaxSteps

ApplyMathExpert ==
    /\ CanStep
    /\ \E fault \in BOOLEAN, r1 \in Replies(MathReplies), nivel \in KnowledgeLevels :
       \E r2 \in RawReplies(MathRawReplies, "MathExpertResponse", r1, FALSE) :
          Step("math_expert",
               IF fault THEN MathExpertError(estado) ELSE MathExpertChain(estado, r1, r2, nivel),
               fault, r1, r2)

ApplyExamCreator ==
    /\ CanStep
    /\ \E fault \in BOOLEAN, r1 \in Replies(ExamReplies) :
       \E r2 \in RawReplies(ExamReplies, "ExamCreatorResponse", r1, TRUE) :
          Step("exam_creator",
               IF fault THEN ExamCreatorError(estado) ELSE ExamCreatorChain(estado, r1, r2),
               fault, r1, r2)

ApplyEvaluator ==
    /\ CanStep
    /\ \E fault \in BOOLEAN, r1 \in Replies(EvaluatorReplies) :
       \E r2 \in RawReplies(EvaluatorReplies, "ResponseEvaluation", r1, TRUE) :
          Step("evaluator",
               IF fault THEN EvaluatorError(estado) ELSE EvaluatorChain(estado, r1, r2),
               fault, r1, r2)

\* plannig_chain has no handler of its own, and its call of evolve_population
\* (line 94) passes keywords the function does not accept: the TypeError
\* leaves the node, and run returns the error text (lines 241-245)
ApplyPlanning ==
    /\ CanStep
    /\ \E fault \in BOOLEAN :
          lmDecision' = [fault |-> fault, r1 |-> NONE, r2 |-> NONE]
    /\ before' = estado
    /\ path' = Append(path, "planning")
    /\ pc' = "raised"
    /\ runStatus' = "returned"
    /\ runResult' = "Error: evolve_population() got an unexpected keyword argument 'topics'"
    /\ UNCHANGED <<estado, lmMode, envelope>>
    /\ UNCHANGED <<sessionVars, knowledgeVars, gaVars>>

NextSteps ==
    \/ ApplyMathExpert
    \/ ApplyExamCreator
    \/ ApplyEvaluator
    \/ ApplyPlanning

SpecSteps == InitSteps /\ [][NextSteps]_vars

\* the node that has just executed, without and with a failure inside it
Executed(node) == path # <<>> /\ Last(path) = node /\ ~lmDecision.fault

Failed(node) == path # <<>> /\ Last(path) = node /\ lmDecision.fault

\* the response the evaluator scored, read off the tag it left
Scored ==
    CASE estado.estado_actual = "exam_creator_evaluado" -> "exam_creator"
      [] estado.estado_actual = "math_expert_evaluado"  -> "math_expert"
      [] estado.estado_actual = "evaluator_completado"  -> "planning"
      [] OTHER                                          -> NONE

C22_EvaluatorPostCondition ==
    Executed("evaluator") =>
        /\ estado.estado_actual \in EvaluatedTags
        /\ estado.necesita_crawler =
              EvaluatorLLMStage(lmDecision.r1, lmDecision.r2).needs_more_context

ResponseOf(e, node) ==
    CASE node = "math_expert"  -> e.respuesta_math_expert
      [] node = "exam_creator" -> e.respuesta_exam_creator
      [] node = "planning"     -> e.respuesta_planning

\* C23: Specialist skeleton. Every execution of math_expert, exam_creator
\* or planning returns with exactly one more chat_history entry, whose role
\* is the specialist's id and whose content is the output written to the
\* specialist's response, and with the tag <specialist>_completado.
C23_SpecialistSkeleton ==
    \A node \in {"math_expert", "exam_creator", "planning"} :
        Executed(node) =>
            /\ runStatus = "running"
            /\ Len(estado.chat_history) = Len(before.chat_history) + 1
            /\ Last(estado.chat_history).role = node
            /\ ResponseOf(estado, node) = Last(estado.chat_history).content
            /\ estado.estado_actual = node \o "_completado"

\* C24: Unexpected internal failure. A failure raised inside math_expert,
\* exam_creator, planning or the evaluator does not leave the node: the
\* node returns to the supervisor with the tag <node>_error, and a
\* specialist leaves an error stub as its response.
C24_FailureContained ==
    \A node \in Specialists :
        Failed(node) =>
            /\ runStatus = "running"
            /\ pc = "supervisor"
            /\ estado.estado_actual = node \o "_error"
            /\ node # "evaluator" => Truthy(ResponseOf(estado, node))

\* the retriever node has just executed
Retrieved == path # <<>> /\ Last(path) = "retriever" /\ runStatus = "running"

\* C25: Retriever failure. When the retrieval fails, the context becomes
\* the two placeholder documents, the graph proceeds to the supervisor, and
\* the tag differs from the one a successful retrieval leaves.
C25_RetrieverFailureRecorded ==
    (Retrieved /\ estado.contexto_recuperado = FallbackContext) =>
        /\ Len(estado.contexto_recuperado) = 2
        /\ pc = "supervisor"
        /\ estado.estado_actual # "retriever_completado"

\* C26: Context ordering. After the retriever node the retrieved context is
\* ordered by score, greatest first, whether the retrieval succeeded or not.
C26_ContextDescending ==
    Retrieved =>
        \A i, j \in 1..Len(estado.contexto_recuperado) :
            i < j => estado.contexto_recuperado[i].score >= estado.contexto_recuperado[j].score

\* the supervisor node has just executed
Supervised == path # <<>> /\ Last(path) = "supervisor" /\ runStatus = "running"

\* C31: Supervisor bookkeeping. After every supervisor step, whichever way
\* the decision was produced, the tag is supervisor_decidio_<agent> and the
\* BDI entries last_decision and current_action both hold the chosen agent.
C31_SupervisorBookkeeping ==
    Supervised =>
        /\ estado.estado_actual = "supervisor_decidio_" \o estado.tipo_ayuda_necesaria
        /\ estado.bdi_last_decision = estado.tipo_ayuda_necesaria
        /\ estado.bdi_current_action = estado.tipo_ayuda_necesaria

\* C36: Stored decision is routable. After any supervisor step the stored
\* next agent is one of math_expert, exam_creator, evaluator, FINISH, so the
\* router returns exactly the stored decision, which is a key of the
\* conditional-edge map, and the graph goes where that key points.
C36_StoredDecisionRoutable ==
    Supervised =>
        /\ estado.tipo_ayuda_necesaria \in opciones_validas
        /\ SupervisorRouter(estado) = estado.tipo_ayuda_necesaria
        /\ estado.tipo_ayuda_necesaria \in DOMAIN ConditionalEdges
        /\ pc = ConditionalEdges[estado.tipo_ayuda_necesaria]

\* the LM named planning, an agent outside the router's set, and the
\* supervisor stored a routable agent instead
C36_Witness ==
    /\ Supervised
    /\ lmDecision = "planning"
    /\ estado.tipo_ayuda_necesaria \in opciones_validas
    /\ pc = estado.tipo_ayuda_necesaria

\* the evaluator node of a graph run has just executed
Evaluated == path # <<>> /\ Last(path) = "evaluator" /\ runStatus = "running"

\* the tags the evaluator may leave after looking at a response of the kind
AfterScoring(kind) ==
    CASE kind = "planning"     -> {"evaluator_completado", "evaluator_error"}
      [] kind = "math_expert"  -> {"math_expert_evaluado", "evaluator_error"}
      [] kind = "exam_creator" -> {"exam_creator_evaluado", "evaluator_error"}

\* C37: Evaluator entry tag. In a graph run the tag the evaluator finds was
\* written by the supervisor, so the response it looks at is the planning
\* one if there is one, else the explanation, else the exam: with both an
\* explanation and an exam, the exam is never the one evaluated.
C37_EvaluatorEntryTag ==
    Evaluated =>
        /\ StartsWith(before.estado_actual, "supervisor_")
        /\ estado.estado_actual \in
              (IF Truthy(before.respuesta_planning) THEN AfterScoring("planning")
               ELSE IF Truthy(before.respuesta_math_expert) THEN AfterScoring("math_expert")
               ELSE IF Truthy(before.respuesta_exam_creator) THEN AfterScoring("exam_creator")
               ELSE {"evaluator_sin_contenido"})
        /\ (Truthy(before.respuesta_math_expert) /\ Truthy(before.respuesta_exam_creator))
              => estado.estado_actual # "exam_creator_evaluado"

\* the exam creator ran after the math expert, and the evaluator scored the
\* explanation
C37_Witness ==
    /\ Evaluated
    /\ Truthy(before.respuesta_math_expert)
    /\ Truthy(before.respuesta_exam_creator)
    /\ path[Len(path) - 2] = "exam_creator"
    /\ estado.estado_actual = "math_expert_evaluado"

\* C35: The initial query is immutable. No step of a run changes
\* consulta_inicial: in every state it is the query run was called with.
C35_InitialQueryImmutable == [][estado'.consulta_inicial = estado.consulta_inicial]_vars

\* a run that went through the retriever, the supervisor, a specialist, the
\* evaluator and the finalizer, with its query as it was given
C35_Witness ==
    /\ pc = "END"
    /\ CountOf("evaluator", path) > 0
    /\ CountOf("math_expert", path) + CountOf("exam_creator", path) > 0
    /\ estado.consulta_inicial = "Explica el Test"
    /\ estado.chat_history[1] = Mensaje("user", "Explica el Test")

\* C32: Fallback drift. When the fallback analysis is applied, the new
\* score of each area it touches is the score before plus one, clamped to
\* 0..10, or minus one when the query contains "no entiendo".
C32_FallbackDrift ==
    \A i \in 1..Len(knowledge.fallback) :
        LET a == knowledge.fallback[i]
        IN  knowledge.areas[a].score =
               Clamp(knowledge.previous[a].score
                     + (IF Contains(estado.consulta_inicial, "no entiendo") THEN -1 ELSE 1))

\* C33: Comprehension level. After every knowledge update the level is the
\* one of the mean of all area scores: avanzado from 7.5, intermedio from
\* 5.5, principiante below.
C33_LevelFromMean ==
    knowledge.updates > 0 =>
        LET total == SumScores(knowledge.areas, DOMAIN knowledge.areas)
            n     == Cardinality(DOMAIN knowledge.areas)
        IN  knowledge.nivel = (IF 10 * total >= 75 * n THEN "avanzado"
                               ELSE IF 10 * total >= 55 * n THEN "intermedio"
                               ELSE "principiante")

\* the questions and minutes of the fallback exam for a level
Composition(consulta, nivel) ==
    CASE nivel = "principiante" ->
            [questions |-> preguntas_basicas(consulta), minutes |-> 45]
      [] nivel = "intermedio" ->
            [questions |-> SubSeq(preguntas_basicas(consulta), 1, 2)
                           \o SubSeq(preguntas_intermedias(consulta), 1, 2),
             minutes |-> 75]
      [] nivel = "avanzado" ->
            [questions |-> SubSeq(preguntas_intermedias(consulta), 1, 2)
                           \o SubSeq(preguntas_avanzadas(consulta), 1, 2),
             minutes |-> 90]

\* the exam creator has just executed and its exam is not the LM's
FallbackExamGiven ==
    /\ path # <<>> /\ Last(path) = "exam_creator" /\ runStatus = "running"
    /\ estado.respuesta_exam_creator # FormatExamOutput(ModelExam)

\* C34: Exam fallback composition. The fallback exam has 3 basic questions
\* and 45 minutes for principiante, 2 basic and 2 intermediate questions and
\* 75 minutes for intermedio, 2 intermediate and 2 advanced questions and
\* 90 minutes for avanzado.
C34_FallbackExamComposition ==
    FallbackExamGiven =>
        LET c == Composition(before.consulta_inicial, before.nivel_comprension)
        IN  estado.respuesta_exam_creator =
               FormatExamOutput([CreateFallbackExam(before.consulta_inicial, before.nivel_comprension)
                                    EXCEPT !.questions = c.questions,
                                           !.estimated_time = c.minutes])

\* C38: Elitism. When evolve_population returns after at least one
\* generation, the best plan it returns is one of the plans of the
\* population it returns, and no plan of that population is fitter.
C38_BestPlanInPopulation ==
    (gaStatus = "returned" /\ generation >= 1) =>
        /\ \E p \in 1..Len(population) : population[p] = best_plan
        /\ \A p \in 1..Len(population) : Fitness(population[p]) <= Fitness(best_plan)

\* evolve_population has returned a best plan that comes from the initial
\* population: no mutated child was fitter, and it replaced the worst child
C38_Witness ==
    /\ gaStatus = "returned"
    /\ generation >= 1
    /\ best_plan \in SeedPlans(EvolveTopics, EvolveLimits)
    /\ \E p \in 1..Len(population) : population[p] = best_plan
    /\ \E p \in 1..Len(population) : Fitness(population[p]) < Fitness(best_plan)

\* C39: Selection and mutation leave their inputs as they were. The call
\* of structured_tournament_selection leaves the caller's population list
\* with the same plans in the same order, for even and odd sizes, and the
\* mutation of the children leaves the children as they were.
C39_InputsUnchanged ==
    [][/\ (gaStatus = "generation" /\ gaStatus' \in {"selected", "IndexError"})
            => population' = population
       /\ (gaStatus = "crossed" /\ gaStatus' = "generation")
            => offspring' = offspring]_vars

====
